---- MODULE Spec2Model ----
(***************************************************************************)
(* Habit data model, merge logic and storage backends of beaverhabits.     *)
(*                                                                         *)
(* The repository holds several implementations of the same protocols:     *)
(*   storage/storage.py  EnhancedHabit / EnhancedHabitList                 *)
(*   storage/dict.py     DictHabit / DictHabitList / DictStorage           *)
(*   views.py            DictHabit / DictHabitList (in-place merge)        *)
(*   frontend/components.py  DictHabitList (a dict keyed by name)          *)
(* and two user backends (storage/user_db.py, storage/user_file.py).       *)
(* Each is modelled on the data it keeps: a habit is the dict stored under *)
(* "habits", a habit list is the dict {"habits": [...], "order": [...]}.   *)
(***************************************************************************)
EXTENDS Integers, Sequences, FiniteSets, TLC

VARIABLES
    hImpl, hA, hB, hR, hpc,          \* one Habit.merge call: implementation, inputs, result
    impl, lst, comp, hist, raised,   \* one in-memory habit list and the calls made on it
    backend, db, disk, sess,         \* the persisted row / file / session dict of one owner
    pc, cur, inc, mrg, ret,          \* the merge_user_habit_list calls in flight
    persisted0, failed, saved,       \* what was persisted at the start; medium failures; last save
    saves,                           \* the number of save_user_habit_list calls made
    prior, lastok, outcome,          \* the last storage call: what a load gave before it, whether
                                     \* the medium answered, what the caller got back
    bMem, bRow, bLoop, bStartup,     \* a DatabasePersistentDict, the owner's row, core.loop, startup handlers
    bTask, bWaiting, bSnap,          \* the lazy backup task running / waiting, the data it writes
    bFailed, bMuts,                  \* a backup failed; the number of mutations made
    upload, notice, before, imports, \* the last import: payload, notification, storage before it; count
    tImpl, tH, tId0, tOp, tBefore,   \* one habit object: its dict, its id at creation, the last call
    tTwice,                          \* the last two calls were the same tick(day, done)
    nName, nList, nValue, nError,    \* a habit's name under HabitNameInput, the list under HabitAddButton
    nOp,                             \* the last name-input event
    pList, pCards, pOp,              \* the order page: its habit list, the cards on screen, the last event
    gIn, gOut,                       \* three lists handed to merge, and the merges computed from them
    uImpl, uHeap, uHab, uBefore,     \* habit dicts sharing record dicts: the record dicts, the habits,
    uOp,                             \* their records before the last call; the last call
    xRow, xDoc, xOp                  \* an owner's persisted data, the last exported document, the last call

vars == <<hImpl, hA, hB, hR, hpc, impl, lst, comp, hist, raised,
          backend, db, disk, sess, pc, cur, inc, mrg, ret, persisted0, failed, saved, saves,
          prior, lastok, outcome,
          bMem, bRow, bLoop, bStartup, bTask, bWaiting, bSnap, bFailed, bMuts,
          upload, notice, before, imports,
          tImpl, tH, tId0, tOp, tBefore, tTwice,
          nName, nList, nValue, nError, nOp,
          pList, pCards, pOp, gIn, gOut, uImpl, uHeap, uHab, uBefore, uOp, xRow, xDoc, xOp>>

habitVars == <<hImpl, hA, hB, hR, hpc>>
listVars  == <<impl, lst, comp, hist, raised>>
storeVars == <<backend, db, disk, sess, pc, cur, inc, mrg, ret, persisted0, failed, saved, saves>>
ioVars     == <<prior, lastok, outcome>>
backupVars == <<bMem, bRow, bLoop, bStartup, bTask, bWaiting, bSnap, bFailed, bMuts>>
importVars == <<upload, notice, before, imports>>
tickVars   == <<tImpl, tH, tId0, tOp, tBefore, tTwice>>
nameVars   == <<nName, nList, nValue, nError, nOp>>
pageVars   == <<pList, pCards, pOp>>
algVars    == <<gIn, gOut>>
pureVars   == <<uImpl, uHeap, uHab, uBefore, uOp>>
exportVars == <<xRow, xDoc, xOp>>

----------------------------------------------------------------------------
(* Bounds *)

MaxDay == 2          \* calendar days 1..MaxDay
MaxHabits == 2       \* an in-memory list holds at most this many entries
MaxOther == 1        \* a list handed to merge holds at most this many habits

Days == 1..MaxDay

Names == {"Read", "Run"}

\* A dict without an "id" key.
NoId == "noid"

\* Python's None where a habit list is expected, and the empty dict {} (no
\* "data" key in the owner's file, an empty session dict). Both are tagged
\* values of the shape of a list, which no habit list equals.
None == [habits |-> <<>>, order |-> <<"None">>]
EmptyDict == [habits |-> <<>>, order |-> <<"{}">>]

----------------------------------------------------------------------------
(* Helpers on sequences and sets *)

Range(s) == {s[i] : i \in 1..Len(s)}

Min(S) == CHOOSE x \in S : \A y \in S : x <= y

RECURSIVE sorted(_)
\* Python's sorted(list(set_of_days)): ascending.
sorted(S) == IF S = {} THEN <<>> ELSE <<Min(S)>> \o sorted(S \ {Min(S)})

\* All orderings of a finite set, as sequences without repetition.
Perms(S) == {p \in [1..Cardinality(S) -> S] : \A i, j \in 1..Cardinality(S) : i # j => p[i] # p[j]}

----------------------------------------------------------------------------
(* Day encoding: records store the day as text under DAY_MASK *)

DayText == <<"2024-01-01", "2024-01-02", "2024-01-03", "2024-01-04">>

\* day.strftime(DAY_MASK)
strftime(day) == DayText[day]

\* datetime.strptime(text, DAY_MASK).date()
strptime(text) == CHOOSE d \in 1..Len(DayText) : DayText[d] = text

\* generate_short_hash(name): a short id derived deterministically from the text.
generate_short_hash(name) ==
    IF name = "Read" THEN "h_read"
    ELSE IF name = "Order pizza" THEN "h_pizza"
    ELSE IF name = "Running" THEN "h_running"
    ELSE IF name = "Table Tennis" THEN "h_tennis"
    ELSE IF name = "Clean" THEN "h_clean"
    ELSE IF name = "Call mom" THEN "h_mom"
    ELSE "h_run"

\* The ids habits come with: one given in imported data, and the hashes of the names.
Ids == {"r1"} \cup {generate_short_hash(n) : n \in Names}

\* generate_short_hash(str(datetime.datetime.now())): the hash of a clock
\* reading. Two readings of one call can be equal or differ.
ClockIds == {"h_t1", "h_t2"}

----------------------------------------------------------------------------
(* Habit: the dict {"id", "name", "star", "records": [{"day", "done"}]} *)

\* CheckedRecord.day of a stored record
RecordDay(r) == strptime(r.day)

\* Habit.ticked_days: [r.day for r in self.records if r.done]
RECURSIVE ticked_days_of(_)
ticked_days_of(recs) ==
    IF recs = <<>> THEN <<>>
    ELSE (IF Head(recs).done THEN <<RecordDay(Head(recs))>> ELSE <<>>) \o ticked_days_of(Tail(recs))

ticked_days(h) == ticked_days_of(h.records)

\* The days a habit has ticked true, as a set.
TickedSet(h) == Range(ticked_days(h))

\* {r.day for r in habit.records}
RecordDays(h) == {RecordDay(h.records[i]) : i \in 1..Len(h.records)}

\* DictHabit.id (dict.py): a dict without "id" gets generate_short_hash(name) on first read.
DictHabit_id(h) == IF h.id = NoId THEN generate_short_hash(h.name) ELSE h.id

\* EnhancedHabit.merge (storage.py): the union of both sides' ticked days, sorted,
\* every record done=True. The new dict carries "name" and "records" only: no
\* "id" and no "star", so the EnhancedHabit built from it takes the defaults
\* (__post_init__): star False and an id hashed from the clock, which is the
\* input gen.
EnhancedHabit_merge(self, other, gen) ==
    LET self_ticks  == {RecordDay(self.records[i]) : i \in {j \in 1..Len(self.records) : self.records[j].done}}
        other_ticks == {RecordDay(other.records[i]) : i \in {j \in 1..Len(other.records) : other.records[j].done}}
        result      == sorted(self_ticks \cup other_ticks)
    IN  [id      |-> gen,
         name    |-> self.name,
         star    |-> FALSE,
         records |-> [i \in 1..Len(result) |-> [day |-> strftime(result[i]), done |-> TRUE]]]

RECURSIVE NotExisting(_, _)
\* [record.data for record in other.records if record.day not in existing_days]
NotExisting(recs, existing_days) ==
    IF recs = <<>> THEN <<>>
    ELSE (IF RecordDay(Head(recs)) \notin existing_days THEN <<Head(recs)>> ELSE <<>>)
         \o NotExisting(Tail(recs), existing_days)

\* DictHabit.merge (dict.py): self's records as they are, then other's records
\* for the days self has no record of; id, name, star from self.
DictHabit_merge(self, other) ==
    LET existing_days == RecordDays(self)
        new_records   == self.records \o NotExisting(other.records, existing_days)
    IN  [id      |-> DictHabit_id(self),
         name    |-> self.name,
         star    |-> self.star,
         records |-> new_records]

\* {r.day: r.done for r in other.records}[day]: the last record of the day wins.
OtherDone(recs, day) ==
    LET last == CHOOSE i \in 1..Len(recs) :
                    /\ RecordDay(recs[i]) = day
                    /\ \A j \in (i+1)..Len(recs) : RecordDay(recs[j]) # day
    IN  recs[last].done

RECURSIVE DictKeys(_, _)
\* The keys of {r.day: ... for r in recs} in insertion order (first occurrence).
DictKeys(recs, seen) ==
    IF recs = <<>> THEN <<>>
    ELSE LET d == RecordDay(Head(recs))
         IN  (IF d \in seen THEN <<>> ELSE <<d>>) \o DictKeys(Tail(recs), seen \cup {d})

RECURSIVE AppendMissing(_, _, _)
\* for day, done in other_records.items(): append when self has no record of day
AppendMissing(recs, keys, otherRecs) ==
    IF keys = <<>> THEN recs
    ELSE LET day  == Head(keys)
             have == {RecordDay(recs[i]) : i \in 1..Len(recs)}
         IN  AppendMissing(
                 IF day \in have THEN recs
                 ELSE Append(recs, [day |-> strftime(day), done |-> OtherDone(otherRecs, day)]),
                 Tail(keys), otherRecs)

\* DictHabit.merge (views.py), in place on self: every record of self takes
\* other's done value for its day when other has one; other's remaining days
\* are appended. The value is self's dict after the call.
ViewsDictHabit_merge(self, other) ==
    LET otherDays == RecordDays(other)
        overwritten == [i \in 1..Len(self.records) |->
                          [day  |-> self.records[i].day,
                           done |-> IF RecordDay(self.records[i]) \in otherDays
                                    THEN OtherDone(other.records, RecordDay(self.records[i]))
                                    ELSE self.records[i].done]]
    IN  [self EXCEPT !.records =
            AppendMissing(overwritten, DictKeys(other.records, {}), other.records)]

----------------------------------------------------------------------------
(* HabitList: the dict {"habits": [...], "order": [...]} *)

RemoveAt(s, i) == [j \in 1..(Len(s) - 1) |-> IF j < i THEN s[j] ELSE s[j + 1]]

RECURSIVE StableSort(_, _)
\* list.sort(key=...): ascending by key, equal keys keep their relative order.
\* s is the list, k the key of each position.
StableSort(s, k) ==
    IF s = <<>> THEN <<>>
    ELSE LET m == Min(Range(k))
             i == Min({j \in 1..Len(k) : k[j] = m})
         IN  <<s[i]>> \o StableSort(RemoveAt(s, i), RemoveAt(k, i))

\* list.index(x): the first position holding x.
IndexOf(s, x) == Min({i \in 1..Len(s) : s[i] = x})

\* sort(key=lambda x: x.star, reverse=True): starred first, stable.
SortByStar(hs) == StableSort(hs, [i \in 1..Len(hs) |-> IF hs[i].star THEN 0 ELSE 1])

\* list.remove(x): drops the first element equal to x (x is known to be there).
RemoveFirst(s, x) == RemoveAt(s, IndexOf(s, x))

\* The ids of the entries of a list of habit dicts.
IdsOf(hs) == {hs[i].id : i \in 1..Len(hs)}

HasId(hs, id) == \E i \in 1..Len(hs) : hs[i].id = id

EmptyList == [habits |-> <<>>, order |-> <<>>]

(* ---- storage.py: EnhancedHabitList ---- *)

\* EnhancedHabitList.habits: by position in order (ids not in order last,
\* float("inf")), or starred first when order is empty.
EnhancedHabitList_habits(l) ==
    IF l.order # <<>>
    THEN StableSort(l.habits,
                    [i \in 1..Len(l.habits) |->
                        IF l.habits[i].id \in Range(l.order)
                        THEN IndexOf(l.order, l.habits[i].id)
                        ELSE Len(l.order) + 1])
    ELSE SortByStar(l.habits)

\* EnhancedHabitList.add: appends {"name", "records": [], "id": hash of the name}.
EnhancedHabitList_add(l, name) ==
    [l EXCEPT !.habits = Append(@, [id |-> generate_short_hash(name), name |-> name,
                                    star |-> FALSE, records |-> <<>>])]

RECURSIVE DropId(_, _)
\* [h for h in hs if h.id != id]
DropId(hs, id) ==
    IF hs = <<>> THEN <<>>
    ELSE (IF Head(hs).id # id THEN <<Head(hs)>> ELSE <<>>) \o DropId(Tail(hs), id)

\* EnhancedHabitList.remove: the sorted view without the entries of item's id.
EnhancedHabitList_remove(l, item) ==
    [l EXCEPT !.habits = DropId(EnhancedHabitList_habits(l), item.id)]

RECURSIVE FirstById(_, _)
\* set(habits): habits are equal when their ids are; the first of each id stays.
FirstById(hs, seen) ==
    IF hs = <<>> THEN {}
    ELSE (IF Head(hs).id \in seen THEN {} ELSE {Head(hs)})
         \cup FirstById(Tail(hs), seen \cup {Head(hs).id})

\* set.add(h): no effect when an equal element (same id) is in the set.
SetAdd(S, h) == IF \E x \in S : x.id = h.id THEN S ELSE S \cup {h}

RECURSIVE MergeLoop(_, _, _, _, _)
\* for self_habit in self.habits: for other_habit in other.habits:
\*     if self_habit == other_habit: result.add(await self_habit.merge(other_habit))
\* gens[i] is the clock-derived id of the habit built for self's i-th habit.
MergeLoop(selfH, otherH, gens, i, result) ==
    IF i > Len(selfH) THEN result
    ELSE LET js == {j \in 1..Len(otherH) : otherH[j].id = selfH[i].id}
             RECURSIVE Inner(_, _)
             Inner(j, acc) ==
                 IF j > Len(otherH) THEN acc
                 ELSE Inner(j + 1,
                            IF j \in js
                            THEN SetAdd(acc, EnhancedHabit_merge(selfH[i], otherH[j], gens[i]))
                            ELSE acc)
         IN  MergeLoop(selfH, otherH, gens, i + 1, Inner(1, result))

\* The positions of self.habits whose habit other.habits also holds: the
\* habits EnhancedHabitList.merge builds anew, each with its own clock-derived id.
Rebuilt(self, other) ==
    LET selfH == EnhancedHabitList_habits(self)
    IN  {i \in 1..Len(selfH) : HasId(other.habits, selfH[i].id)}

\* EnhancedHabitList.merge up to the order of the result: the set `result`.
EnhancedHabitList_merge_result(self, other, gens) ==
    LET selfH    == EnhancedHabitList_habits(self)
        otherH   == EnhancedHabitList_habits(other)
        selfSet  == FirstById(selfH, {})
        otherSet == FirstById(otherH, {})
        symdiff  == {h \in selfSet : h.id \notin IdsOf(otherH)}
                    \cup {h \in otherSet : h.id \notin IdsOf(selfH)}
    IN  MergeLoop(selfH, otherH, gens, 1, symdiff)

\* EnhancedHabitList.merge: a new list of the result set's habits with self's
\* order. A set is listed in its iteration order, which the program does not
\* fix: the value is the set of lists the call can return.
EnhancedHabitList_merge(self, other, gens) ==
    {[habits |-> p, order |-> self.order] :
        p \in Perms(EnhancedHabitList_merge_result(self, other, gens))}

(* ---- dict.py: DictHabitList ---- *)

\* Reading DictHabit.id stores the generated id in the habit's dict.
WithIds(hs) == [i \in 1..Len(hs) |-> [hs[i] EXCEPT !.id = DictHabit_id(hs[i])]]

\* DictHabitList.habits (dict.py): starred first.
DictHabitList_habits(l) == SortByStar(l.habits)

\* DictHabitList.add (dict.py): nothing when a habit of that name exists.
DictHabitList_add(l, name) ==
    IF \E i \in 1..Len(l.habits) : l.habits[i].name = name
    THEN l
    ELSE [l EXCEPT !.habits = Append(@, [id |-> generate_short_hash(name), name |-> name,
                                         star |-> FALSE, records |-> <<>>])]

\* DictHabitList.remove (dict.py): self.data["habits"].remove(item.data), which
\* raises ValueError when no entry equals item.data.
DictHabitList_remove_raises(l, item) == item \notin Range(l.habits)

DictHabitList_remove(l, item) == [l EXCEPT !.habits = RemoveFirst(@, item)]

RECURSIVE DictHabitList_merge_loop(_, _, _)
\* for habit in other.habits: ... (existing_habits is computed once, before the loop)
DictHabitList_merge_loop(habits, otherH, existing_habits) ==
    IF otherH = <<>> THEN habits
    ELSE LET habit == Head(otherH)
         IN  IF habit.id \in existing_habits
             THEN LET view            == SortByStar(habits)
                      existing_habit  == view[Min({i \in 1..Len(view) : view[i].id = habit.id})]
                      merged_habit    == DictHabit_merge(existing_habit, habit)
                  IN  DictHabitList_merge_loop(
                          Append(RemoveFirst(habits, existing_habit), merged_habit),
                          Tail(otherH), existing_habits)
             ELSE DictHabitList_merge_loop(Append(habits, habit), Tail(otherH), existing_habits)

\* DictHabitList.merge_user_habit_list (dict.py), in place on self: the value
\* is self's dict after the call.
DictHabitList_merge_user_habit_list(self, other) ==
    LET mine == WithIds(self.habits)
    IN  [self EXCEPT !.habits =
            DictHabitList_merge_loop(mine, WithIds(DictHabitList_habits(other)), IdsOf(mine))]

(* ---- views.py: DictHabitList ---- *)

\* DictHabitList.add (views.py): appends, whatever the list holds.
ViewsDictHabitList_add(l, name) ==
    [l EXCEPT !.habits = Append(@, [id |-> generate_short_hash(name), name |-> name,
                                    star |-> FALSE, records |-> <<>>])]

\* DictHabitList.remove (views.py): [h for h in habits if h["id"] != item.id]
ViewsDictHabitList_remove(l, item) == [l EXCEPT !.habits = DropId(@, item.id)]

\* {h.id: h for h in other.habits}[id]: the last habit of the id wins.
LastById(hs, id) == hs[CHOOSE i \in 1..Len(hs) :
                          /\ hs[i].id = id
                          /\ \A j \in (i+1)..Len(hs) : hs[j].id # id]

RECURSIVE ViewsAppendOthers(_, _)
\* for habit in other.habits: if habit.id not in (h.id for h in self.habits): append
ViewsAppendOthers(habits, otherH) ==
    IF otherH = <<>> THEN habits
    ELSE ViewsAppendOthers(
             IF Head(otherH).id \in IdsOf(habits) THEN habits ELSE Append(habits, Head(otherH)),
             Tail(otherH))

\* DictHabitList.merge (views.py), in place on self. The first loop runs over
\* the habits self held on entry: one that other also has is merged in place,
\* one that other lacks is appended to the list a second time.
ViewsDictHabitList_merge(self, other) ==
    LET mine     == self.habits
        merged   == [i \in 1..Len(mine) |->
                        IF mine[i].id \in IdsOf(other.habits)
                        THEN ViewsDictHabit_merge(mine[i], LastById(other.habits, mine[i].id))
                        ELSE mine[i]]
        appended == SelectSeq(mine, LAMBDA h : h.id \notin IdsOf(other.habits))
    IN  [self EXCEPT !.habits = ViewsAppendOthers(merged \o appended, other.habits)]

(* ---- frontend/components.py: DictHabitList, a dict keyed by name ---- *)

\* DictHabitList.add (components.py)
ComponentsDictHabitList_add(habits, name) ==
    IF name \in DOMAIN habits THEN habits
    ELSE [n \in DOMAIN habits \cup {name} |->
            IF n = name THEN [name |-> name, star |-> FALSE, ticked_days |-> {}, status |-> "active"]
            ELSE habits[n]]

\* DictHabitList.remove (components.py)
ComponentsDictHabitList_remove(habits, habit) ==
    IF habit.name \in DOMAIN habits
    THEN [n \in DOMAIN habits \ {habit.name} |-> habits[n]]
    ELSE habits

----------------------------------------------------------------------------
(* Inputs *)

\* Record lists with at most one record per day, in any order.
RecordInputs ==
    UNION {{[i \in 1..Cardinality(D) |-> [day |-> strftime(p[i]), done |-> done[p[i]]]] :
                p \in Perms(D), done \in [D -> BOOLEAN]} : D \in SUBSET Days}

HabitInputs == [id : Ids, name : Names, star : BOOLEAN, records : RecordInputs]

\* Habits handed to the list operations: no record, or the first day ticked.
ListHabits == [id : Ids, name : Names, star : BOOLEAN,
               records : {<<>>, <<[day |-> strftime(1), done |-> TRUE]>>}]

UniqueById(hs) == \A i, j \in 1..Len(hs) : i # j => hs[i].id # hs[j].id

\* The lists handed to merge: at most MaxOther habits, unique by id, no order.
OtherLists ==
    {[habits |-> hs, order |-> <<>>] :
        hs \in {x \in UNION {[1..n -> ListHabits] : n \in 0..MaxOther} : UniqueById(x)}}

Impls == {"Enhanced", "Dict", "Views", "Components"}

NoHabit == [id |-> NoId, name |-> "", star |-> FALSE, records |-> <<>>]

NoComp == [n \in {} |-> NoHabit]

NoCall == [op |-> "none", name |-> "", item |-> NoHabit, other |-> EmptyList,
           before |-> EmptyList, cbefore |-> NoComp, size |-> 0]

----------------------------------------------------------------------------
(* One Habit.merge call *)

HabitIdle == /\ hImpl = "none" /\ hA = NoHabit /\ hB = NoHabit /\ hR = NoHabit /\ hpc = "idle"
ListIdle  == /\ impl = "none" /\ lst = EmptyList /\ comp = NoComp /\ hist = NoCall /\ raised = "none"

InitHabit ==
    /\ hImpl \in {"Enhanced", "Dict", "Views"}
    /\ hA \in HabitInputs
    /\ hB \in {h \in HabitInputs : h.id = hA.id}
    /\ hR = NoHabit
    /\ hpc = "start"

\* await self.merge(other) on EnhancedHabit
EnhancedHabitMerge ==
    /\ hImpl = "Enhanced" /\ hpc = "start"
    /\ \E gen \in ClockIds : hR' = EnhancedHabit_merge(hA, hB, gen)
    /\ hpc' = "merged"
    /\ UNCHANGED <<hImpl, hA, hB, listVars, storeVars, ioVars, backupVars, importVars, tickVars, nameVars, pageVars, algVars, pureVars, exportVars>>

\* await self.merge(other) on dict.py's DictHabit
DictHabitMerge ==
    /\ hImpl = "Dict" /\ hpc = "start"
    /\ hR' = DictHabit_merge(hA, hB)
    /\ hpc' = "merged"
    /\ UNCHANGED <<hImpl, hA, hB, listVars, storeVars, ioVars, backupVars, importVars, tickVars, nameVars, pageVars, algVars, pureVars, exportVars>>

\* self.merge(other) on views.py's DictHabit; hR is self after the call
ViewsHabitMerge ==
    /\ hImpl = "Views" /\ hpc = "start"
    /\ hR' = ViewsDictHabit_merge(hA, hB)
    /\ hpc' = "merged"
    /\ UNCHANGED <<hImpl, hA, hB, listVars, storeVars, ioVars, backupVars, importVars, tickVars, nameVars, pageVars, algVars, pureVars, exportVars>>

----------------------------------------------------------------------------
(* One in-memory habit list: add, remove, merge *)

\* The number of entries the list holds.
SizeOf(i, l, c) == IF i = "Components" THEN Cardinality(DOMAIN c) ELSE Len(l.habits)

\* HabitList.habits, the read view of each implementation.
HabitsView(i, l) ==
    IF i = "Enhanced" THEN EnhancedHabitList_habits(l)
    ELSE IF i = "Dict" THEN DictHabitList_habits(l)
    ELSE l.habits

\* The call just made: its arguments, and the list and its size before it.
Called(op, name, item, other) ==
    [op |-> op, name |-> name, item |-> item, other |-> other,
     before |-> lst, cbefore |-> comp, size |-> SizeOf(impl, lst, comp)]

InitList ==
    /\ impl \in Impls
    /\ lst = EmptyList
    /\ comp = NoComp
    /\ hist = NoCall
    /\ raised = "none"

\* await habit_list.add(name)
EnhancedAdd ==
    \E name \in Names :
    /\ impl = "Enhanced" /\ Len(lst.habits) < MaxHabits
    /\ lst' = EnhancedHabitList_add(lst, name)
    /\ hist' = Called("add", name, NoHabit, EmptyList)
    /\ raised' = "none"
    /\ UNCHANGED <<impl, comp, habitVars, storeVars, ioVars, backupVars, importVars, tickVars, nameVars, pageVars, algVars, pureVars, exportVars>>

DictAdd ==
    \E name \in Names :
    /\ impl = "Dict" /\ Len(lst.habits) < MaxHabits
    /\ lst' = DictHabitList_add(lst, name)
    /\ hist' = Called("add", name, NoHabit, EmptyList)
    /\ raised' = "none"
    /\ UNCHANGED <<impl, comp, habitVars, storeVars, ioVars, backupVars, importVars, tickVars, nameVars, pageVars, algVars, pureVars, exportVars>>

ViewsAdd ==
    \E name \in Names :
    /\ impl = "Views" /\ Len(lst.habits) < MaxHabits
    /\ lst' = ViewsDictHabitList_add(lst, name)
    /\ hist' = Called("add", name, NoHabit, EmptyList)
    /\ raised' = "none"
    /\ UNCHANGED <<impl, comp, habitVars, storeVars, ioVars, backupVars, importVars, tickVars, nameVars, pageVars, algVars, pureVars, exportVars>>

ComponentsAdd ==
    \E name \in Names :
    /\ impl = "Components"
    /\ comp' = ComponentsDictHabitList_add(comp, name)
    /\ hist' = Called("add", name, NoHabit, EmptyList)
    /\ raised' = "none"
    /\ UNCHANGED <<impl, lst, habitVars, storeVars, ioVars, backupVars, importVars, tickVars, nameVars, pageVars, algVars, pureVars, exportVars>>

\* The habit objects a caller can hold: the entries of the list, and the
\* entries it had before the last call (a delete button clicked twice).
Held == Range(lst.habits) \cup Range(hist.before.habits)

\* await habit_list.remove(item)
EnhancedRemove ==
    \E item \in Held :
    /\ impl = "Enhanced"
    /\ lst' = EnhancedHabitList_remove(lst, item)
    /\ hist' = Called("remove", item.name, item, EmptyList)
    /\ raised' = "none"
    /\ UNCHANGED <<impl, comp, habitVars, storeVars, ioVars, backupVars, importVars, tickVars, nameVars, pageVars, algVars, pureVars, exportVars>>

DictRemove ==
    \E item \in Held :
    /\ impl = "Dict"
    /\ IF DictHabitList_remove_raises(lst, item)
       THEN /\ raised' = "ValueError"
            /\ lst' = lst
       ELSE /\ raised' = "none"
            /\ lst' = DictHabitList_remove(lst, item)
    /\ hist' = Called("remove", item.name, item, EmptyList)
    /\ UNCHANGED <<impl, comp, habitVars, storeVars, ioVars, backupVars, importVars, tickVars, nameVars, pageVars, algVars, pureVars, exportVars>>

ViewsRemove ==
    \E item \in Held :
    /\ impl = "Views"
    /\ lst' = ViewsDictHabitList_remove(lst, item)
    /\ hist' = Called("remove", item.name, item, EmptyList)
    /\ raised' = "none"
    /\ UNCHANGED <<impl, comp, habitVars, storeVars, ioVars, backupVars, importVars, tickVars, nameVars, pageVars, algVars, pureVars, exportVars>>

\* The habit a components.py caller holds is looked up by its name alone.
ComponentsRemove ==
    \E name \in Names :
    /\ impl = "Components"
    /\ comp' = ComponentsDictHabitList_remove(comp, [name |-> name])
    /\ hist' = Called("remove", name, NoHabit, EmptyList)
    /\ raised' = "none"
    /\ UNCHANGED <<impl, lst, habitVars, storeVars, ioVars, backupVars, importVars, tickVars, nameVars, pageVars, algVars, pureVars, exportVars>>

\* merged = await self.merge(other); the caller goes on with merged
EnhancedMerge ==
    \E other \in OtherLists :
    /\ impl = "Enhanced"
    /\ \E gens \in [Rebuilt(lst, other) -> ClockIds] :
         \E merged \in EnhancedHabitList_merge(lst, other, gens) :
            /\ Len(merged.habits) <= MaxHabits
            /\ lst' = merged
    /\ hist' = Called("merge", "", NoHabit, other)
    /\ raised' = "none"
    /\ UNCHANGED <<impl, comp, habitVars, storeVars, ioVars, backupVars, importVars, tickVars, nameVars, pageVars, algVars, pureVars, exportVars>>

\* await self.merge_user_habit_list(other)
DictMerge ==
    \E other \in OtherLists :
    /\ impl = "Dict"
    /\ Len(DictHabitList_merge_user_habit_list(lst, other).habits) <= MaxHabits
    /\ lst' = DictHabitList_merge_user_habit_list(lst, other)
    /\ hist' = Called("merge", "", NoHabit, other)
    /\ raised' = "none"
    /\ UNCHANGED <<impl, comp, habitVars, storeVars, ioVars, backupVars, importVars, tickVars, nameVars, pageVars, algVars, pureVars, exportVars>>

\* self.merge(other)
ViewsMerge ==
    \E other \in OtherLists :
    /\ impl = "Views"
    /\ Len(ViewsDictHabitList_merge(lst, other).habits) <= MaxHabits
    /\ lst' = ViewsDictHabitList_merge(lst, other)
    /\ hist' = Called("merge", "", NoHabit, other)
    /\ raised' = "none"
    /\ UNCHANGED <<impl, comp, habitVars, storeVars, ioVars, backupVars, importVars, tickVars, nameVars, pageVars, algVars, pureVars, exportVars>>

NextList ==
    \/ EnhancedAdd \/ DictAdd \/ ViewsAdd \/ ComponentsAdd
    \/ EnhancedRemove \/ DictRemove \/ ViewsRemove \/ ComponentsRemove
    \/ EnhancedMerge \/ DictMerge \/ ViewsMerge

NextHabit == EnhancedHabitMerge \/ DictHabitMerge \/ ViewsHabitMerge

----------------------------------------------------------------------------
(* Storage backends of one owner *)

MaxStored == 1       \* a list handed to a backend holds at most this many habits
MaxSaves == 1        \* save_user_habit_list is called at most this many times in a run

Procs == {1, 2}

StoreHabits == [id : {"r1", "h_run"}, name : {"Run"}, star : {FALSE},
                records : {<<>>} \cup {<<[day |-> strftime(d), done |-> TRUE]>> : d \in Days}]

StoreLists ==
    {[habits |-> hs, order |-> <<>>] :
        hs \in {x \in UNION {[1..n -> StoreHabits] : n \in 0..MaxStored} : UniqueById(x)}}

\* The lists handed to save_user_habit_list, uploaded, and held by a
\* DatabasePersistentDict: at most MaxStored habits, each without a record or
\* with the first day ticked.
SaveHabits == [id : {"r1", "h_run"}, name : {"Run"}, star : {FALSE},
               records : {<<>>, <<[day |-> strftime(1), done |-> TRUE]>>}]

SaveLists ==
    {[habits |-> hs, order |-> <<>>] :
        hs \in {x \in UNION {[1..n -> SaveHabits] : n \in 0..MaxStored} : UniqueById(x)}}

\* EnhancedHabitList.__post_init__: a dict without "habits" / "order" gets empty ones.
EnhancedHabitList_post_init(data) == IF data = EmptyDict THEN EmptyList ELSE data

\* crud.get_user_habit_list answers with the owner's row (None when there is
\* none) or raises; get_user_habit_list logs the exception and returns None.
UserDatabaseStorage_get_user_habit_list(row, ok) == IF ok THEN row ELSE None

\* UserDiskStorage.get_user_habit_list: None when the file has no data (or
\* the read raises, which is logged).
UserDiskStorage_get_user_habit_list(file, ok) ==
    IF ok /\ file # EmptyDict THEN file ELSE None

\* DictStorage.get_user_habit_list: None when self.data is empty.
DictStorage_get_user_habit_list(data) == IF data # EmptyDict THEN data ELSE None

\* DictStorage.save_user_habit_list: self.data = habit_list.data
DictStorage_save_user_habit_list(data, habit_list) == habit_list

\* A save that clears the row before writing, so that a failed write leaves it empty.
save_clears_row_first(row, habit_list, ok) == IF ok THEN habit_list ELSE EmptyList

\* UserDatabaseStorage.save_user_habit_list: the row takes habit_list.data;
\* an exception of crud.update_user_habit_list is logged and the row stays.
UserDatabaseStorage_save_user_habit_list(row, habit_list, ok) ==
    IF ok THEN habit_list ELSE row

\* UserDiskStorage._merge_habit_lists: the lists current.merge(other) can give;
\* when the merge raises, the exception is logged and current is returned.
UserDiskStorage_merge_habit_lists(current, other, gens, merge_ok) ==
    IF merge_ok
    THEN EnhancedHabitList_merge(EnhancedHabitList_post_init(current), other, gens)
    ELSE {current}

\* UserDiskStorage.save_user_habit_list: d[KEY_NAME] takes the merge of what
\* the file holds with habit_list; an exception of _get_persistent_dict is
\* logged and the file stays. The value is the set of contents the file can
\* have after the call.
UserDiskStorage_save_user_habit_list(file, habit_list, gens, ok, merge_ok) ==
    IF ok THEN UserDiskStorage_merge_habit_lists(file, habit_list, gens, merge_ok) ELSE {file}

\* What get_user_habit_list of the configured backend returns now, the medium answering.
Load ==
    IF backend = "USER_DATABASE" THEN UserDatabaseStorage_get_user_habit_list(db, TRUE)
    ELSE IF backend = "USER_DISK" THEN UserDiskStorage_get_user_habit_list(disk, TRUE)
    ELSE DictStorage_get_user_habit_list(sess)

\* What a storage call gives its caller: every call returns, none raises (the
\* backends catch Exception, log it and go on).
Returned(op, value) == [op |-> op, value |-> value, raised |-> FALSE]

NoOutcome == [op |-> "none", value |-> None, raised |-> FALSE]

IoIdle == prior = None /\ lastok = TRUE /\ outcome = NoOutcome

StoreIdle ==
    /\ backend = "none" /\ db = None /\ disk = EmptyDict /\ sess = EmptyDict
    /\ pc = [p \in Procs |-> "idle"]
    /\ cur = [p \in Procs |-> None] /\ inc = [p \in Procs |-> None]
    /\ mrg = [p \in Procs |-> None] /\ ret = [p \in Procs |-> None]
    /\ persisted0 = None /\ failed = FALSE /\ saved = None /\ saves = 0

InitStore ==
    /\ backend \in {"USER_DATABASE", "USER_DISK", "SESSION"}
    /\ persisted0 \in {None} \cup StoreLists
    /\ db   = IF backend = "USER_DATABASE" THEN persisted0 ELSE None
    /\ disk = IF backend = "USER_DISK" /\ persisted0 # None THEN persisted0 ELSE EmptyDict
    /\ sess = IF backend = "SESSION" /\ persisted0 # None THEN persisted0 ELSE EmptyDict
    /\ pc = [p \in Procs |-> "idle"]
    /\ cur = [p \in Procs |-> None] /\ inc = [p \in Procs |-> None]
    /\ mrg = [p \in Procs |-> None] /\ ret = [p \in Procs |-> None]
    /\ failed = FALSE /\ saved = None /\ saves = 0

\* UserDatabaseStorage.merge_user_habit_list, up to its first await:
\* current = await self.get_user_habit_list(user); if current is None: return other
MergeUserHabitList_get ==
    \E p \in Procs, other \in StoreLists, ok \in BOOLEAN :
    /\ backend = "USER_DATABASE" /\ pc[p] = "idle"
    /\ inc' = [inc EXCEPT ![p] = other]
    /\ LET current == UserDatabaseStorage_get_user_habit_list(db, ok)
       IN  /\ cur' = [cur EXCEPT ![p] = current]
           /\ IF current = None
              THEN /\ pc' = [pc EXCEPT ![p] = "done"]
                   /\ ret' = [ret EXCEPT ![p] = other]
              ELSE /\ pc' = [pc EXCEPT ![p] = "loaded"]
                   /\ ret' = ret
    /\ failed' = (failed \/ ~ok)
    /\ UNCHANGED <<backend, db, disk, sess, mrg, persisted0, saved, saves, habitVars, listVars, ioVars, backupVars, importVars, tickVars, nameVars, pageVars, algVars, pureVars, exportVars>>

\* merged_habit_list = await current.merge(other)
MergeUserHabitList_merge ==
    \E p \in Procs :
    /\ pc[p] = "loaded"
    /\ \E gens \in [Rebuilt(cur[p], inc[p]) -> ClockIds] :
         \E merged \in EnhancedHabitList_merge(cur[p], inc[p], gens) :
            mrg' = [mrg EXCEPT ![p] = merged]
    /\ pc' = [pc EXCEPT ![p] = "merged"]
    /\ UNCHANGED <<backend, db, disk, sess, cur, inc, ret, persisted0, failed, saved, saves, habitVars, listVars, ioVars, backupVars, importVars, tickVars, nameVars, pageVars, algVars, pureVars, exportVars>>

\* await self.save_user_habit_list(user, merged_habit_list); return merged_habit_list
MergeUserHabitList_save ==
    \E p \in Procs, ok \in BOOLEAN :
    /\ pc[p] = "merged"
    /\ db' = UserDatabaseStorage_save_user_habit_list(db, mrg[p], ok)
    /\ pc' = [pc EXCEPT ![p] = "done"]
    /\ ret' = [ret EXCEPT ![p] = mrg[p]]
    /\ failed' = (failed \/ ~ok)
    /\ saved' = None
    /\ UNCHANGED <<backend, disk, sess, cur, inc, mrg, persisted0, saves, habitVars, listVars, ioVars, backupVars, importVars, tickVars, nameVars, pageVars, algVars, pureVars, exportVars>>

\* await user_storage.save_user_habit_list(user, habit_list), database backend
SaveUserHabitList_database ==
    \E habit_list \in SaveLists, ok \in BOOLEAN :
    /\ backend = "USER_DATABASE" /\ saves < MaxSaves
    /\ saves' = saves + 1
    /\ db' = UserDatabaseStorage_save_user_habit_list(db, habit_list, ok)
    /\ saved' = habit_list
    /\ failed' = (failed \/ ~ok)
    /\ prior' = Load
    /\ lastok' = ok
    /\ outcome' = Returned("save", None)
    /\ UNCHANGED <<backend, disk, sess, pc, cur, inc, mrg, ret, persisted0, habitVars, listVars, backupVars, importVars, tickVars, nameVars, pageVars, algVars, pureVars, exportVars>>

\* await user_storage.save_user_habit_list(user, habit_list), disk backend
SaveUserHabitList_disk ==
    \E habit_list \in SaveLists, ok \in BOOLEAN, merge_ok \in BOOLEAN :
    /\ backend = "USER_DISK" /\ saves < MaxSaves
    /\ saves' = saves + 1
    /\ \E gens \in [Rebuilt(EnhancedHabitList_post_init(disk), habit_list) -> ClockIds] :
         disk' \in UserDiskStorage_save_user_habit_list(disk, habit_list, gens, ok, merge_ok)
    /\ saved' = habit_list
    /\ failed' = (failed \/ ~ok \/ ~merge_ok)
    /\ prior' = Load
    /\ lastok' = (ok /\ merge_ok)
    /\ outcome' = Returned("save", None)
    /\ UNCHANGED <<backend, db, sess, pc, cur, inc, mrg, ret, persisted0, habitVars, listVars, backupVars, importVars, tickVars, nameVars, pageVars, algVars, pureVars, exportVars>>

\* session_storage.save_user_habit_list(habit_list)
SaveUserHabitList_session ==
    \E habit_list \in SaveLists :
    /\ backend = "SESSION" /\ saves < MaxSaves
    /\ saves' = saves + 1
    /\ sess' = DictStorage_save_user_habit_list(sess, habit_list)
    /\ saved' = habit_list
    /\ prior' = Load
    /\ lastok' = TRUE
    /\ outcome' = Returned("save", None)
    /\ UNCHANGED <<backend, db, disk, pc, cur, inc, mrg, ret, persisted0, failed, habitVars, listVars, backupVars, importVars, tickVars, nameVars, pageVars, algVars, pureVars, exportVars>>

\* habit_list = await user_storage.get_user_habit_list(user), database backend
GetUserHabitList_database ==
    \E ok \in BOOLEAN :
    /\ backend = "USER_DATABASE"
    /\ prior' = Load
    /\ lastok' = ok
    /\ outcome' = Returned("get", UserDatabaseStorage_get_user_habit_list(db, ok))
    /\ failed' = (failed \/ ~ok)
    /\ UNCHANGED <<backend, db, disk, sess, pc, cur, inc, mrg, ret, persisted0, saved, saves,
                   habitVars, listVars, backupVars, importVars, tickVars, nameVars, pageVars, algVars, pureVars, exportVars>>

\* habit_list = await user_storage.get_user_habit_list(user), disk backend
GetUserHabitList_disk ==
    \E ok \in BOOLEAN :
    /\ backend = "USER_DISK"
    /\ prior' = Load
    /\ lastok' = ok
    /\ outcome' = Returned("get", UserDiskStorage_get_user_habit_list(disk, ok))
    /\ failed' = (failed \/ ~ok)
    /\ UNCHANGED <<backend, db, disk, sess, pc, cur, inc, mrg, ret, persisted0, saved, saves,
                   habitVars, listVars, backupVars, importVars, tickVars, nameVars, pageVars, algVars, pureVars, exportVars>>

NextMerge == MergeUserHabitList_get \/ MergeUserHabitList_merge \/ MergeUserHabitList_save

NextSave ==
    \/ SaveUserHabitList_database \/ SaveUserHabitList_disk \/ SaveUserHabitList_session
    \/ GetUserHabitList_database \/ GetUserHabitList_disk

----------------------------------------------------------------------------
(* views.py: get_or_create of the owner's list *)

MaxDummy == 2        \* the default list is cut to the first MaxDummy of its five habits

DummyNames == <<"Order pizza", "Running", "Table Tennis", "Clean", "Call mom">>

\* The days get_or_create is called with.
DummyDays == <<1>>

\* dummy_habit_list(days): a habit for each name with a record for every day,
\* done as random.randint(0, 3) == 0 falls: pick[i][k] for habit i and day k.
dummy_habit_list(days, pick) ==
    [habits |-> [i \in 1..MaxDummy |->
                    [id |-> generate_short_hash(DummyNames[i]), name |-> DummyNames[i],
                     star |-> FALSE,
                     records |-> [k \in 1..Len(days) |->
                                     [day |-> strftime(days[k]), done |-> pick[i][k]]]]],
     order |-> <<>>]

Picks == [1..MaxDummy -> [1..Len(DummyDays) -> BOOLEAN]]

\* await get_or_create_user_habit_list(user, days), database backend:
\* get_user_habit_list(user) or _create_habit_list(user, days), which saves
\* the default list and returns it.
GetOrCreateUserHabitList_database ==
    \E ok \in BOOLEAN, save_ok \in BOOLEAN, pick \in Picks :
    /\ backend = "USER_DATABASE" /\ saves < MaxSaves
    /\ LET got        == UserDatabaseStorage_get_user_habit_list(db, ok)
           habit_list == dummy_habit_list(DummyDays, pick)
       IN  IF got # None
           THEN /\ UNCHANGED <<db, saved, saves>>
                /\ failed' = failed
                /\ outcome' = Returned("get", got)
           ELSE /\ db' = UserDatabaseStorage_save_user_habit_list(db, habit_list, save_ok)
                /\ saved' = habit_list
                /\ saves' = saves + 1
                /\ failed' = (failed \/ ~ok \/ ~save_ok)
                /\ outcome' = Returned("create", habit_list)
    /\ prior' = Load
    /\ lastok' = ok
    /\ UNCHANGED <<backend, disk, sess, pc, cur, inc, mrg, ret, persisted0, habitVars, listVars, backupVars, importVars, tickVars, nameVars, pageVars, algVars, pureVars, exportVars>>

\* await get_or_create_user_habit_list(user, days), disk backend: the save
\* merges the default list into what the file holds.
GetOrCreateUserHabitList_disk ==
    \E ok \in BOOLEAN, save_ok \in BOOLEAN, merge_ok \in BOOLEAN, pick \in Picks :
    /\ backend = "USER_DISK" /\ saves < MaxSaves
    /\ LET got        == UserDiskStorage_get_user_habit_list(disk, ok)
           habit_list == dummy_habit_list(DummyDays, pick)
       IN  IF got # None
           THEN /\ UNCHANGED <<disk, saved, saves>>
                /\ failed' = failed
                /\ outcome' = Returned("get", got)
           ELSE /\ \E gens \in [Rebuilt(EnhancedHabitList_post_init(disk), habit_list) -> ClockIds] :
                     disk' \in UserDiskStorage_save_user_habit_list(disk, habit_list, gens, save_ok, merge_ok)
                /\ saved' = habit_list
                /\ saves' = saves + 1
                /\ failed' = (failed \/ ~ok \/ ~save_ok \/ ~merge_ok)
                /\ outcome' = Returned("create", habit_list)
    /\ prior' = Load
    /\ lastok' = ok
    /\ UNCHANGED <<backend, db, sess, pc, cur, inc, mrg, ret, persisted0, habitVars, listVars, backupVars, importVars, tickVars, nameVars, pageVars, algVars, pureVars, exportVars>>

\* get_or_create_session_habit_list(days): get_session_habit_list() or
\* _create_habit_list(days) - called with one argument where
\* _create_habit_list(target, days) takes two, which raises TypeError before
\* any list is made.
GetOrCreateSessionHabitList ==
    /\ backend = "SESSION"
    /\ LET got == DictStorage_get_user_habit_list(sess)
       IN  outcome' = IF got # None THEN Returned("get", got)
                      ELSE [op |-> "create", value |-> None, raised |-> TRUE]
    /\ prior' = Load
    /\ lastok' = TRUE
    /\ UNCHANGED <<storeVars, habitVars, listVars, backupVars, importVars, tickVars, nameVars, pageVars, algVars, pureVars, exportVars>>

NextCreate ==
    \/ GetOrCreateUserHabitList_database \/ GetOrCreateUserHabitList_disk
    \/ GetOrCreateSessionHabitList

----------------------------------------------------------------------------
(* DatabasePersistentDict: every change of the in-memory dict schedules a backup *)

MaxMuts == 3         \* the in-memory dict is changed at most this many times in a run

\* background_tasks.create_lazy(backup(), name=self.user.email): one task of a
\* name runs at a time; a coroutine handed in meanwhile waits (taking the
\* place of one already waiting) and is started when the running task is done.
create_lazy_discards(task, waiting) ==
    IF task # "none" THEN [task |-> task, waiting |-> waiting]
    ELSE [task |-> "created", waiting |-> FALSE]

create_lazy(task, waiting) ==
    IF task # "none" THEN [task |-> task, waiting |-> TRUE]
    ELSE [task |-> "created", waiting |-> FALSE]

\* The done-callback of a lazy task: the waiting coroutine, if any, is started.
lazy_finalize(waiting) ==
    IF waiting THEN [task |-> "created", waiting |-> FALSE]
    ELSE [task |-> "none", waiting |-> FALSE]

BackupIdle ==
    /\ bMem = EmptyList /\ bRow = EmptyList /\ bLoop = FALSE /\ bStartup = FALSE
    /\ bTask = "none" /\ bWaiting = FALSE /\ bSnap = EmptyList /\ bFailed = FALSE /\ bMuts = 0

\* get_user_habit_list wraps the data of the owner's row in a DatabasePersistentDict.
InitBackup ==
    /\ bRow \in SaveLists
    /\ bMem = bRow
    /\ bLoop \in BOOLEAN
    /\ bStartup = FALSE
    /\ bTask = "none" /\ bWaiting = FALSE /\ bSnap = bRow /\ bFailed = FALSE /\ bMuts = 0

\* A change of the dict (a tick, a rename, an add, ...) calls on_change = backup:
\* with the loop running the coroutine goes to create_lazy, before that it is
\* registered to run on startup.
DatabasePersistentDict_change ==
    \E data \in SaveLists \ {bMem} :
    /\ bMuts < MaxMuts
    /\ bMuts' = bMuts + 1
    /\ bMem' = data
    /\ IF bLoop
       THEN /\ bTask' = create_lazy(bTask, bWaiting).task
            /\ bWaiting' = create_lazy(bTask, bWaiting).waiting
            /\ bStartup' = bStartup
       ELSE /\ bStartup' = TRUE
            /\ UNCHANGED <<bTask, bWaiting>>
    /\ UNCHANGED <<bRow, bLoop, bSnap, bFailed, habitVars, listVars, storeVars, ioVars,
                   importVars, tickVars, nameVars, pageVars, algVars, pureVars, exportVars>>

\* The application starts: the registered backup coroutines run one after the
\* other, each writing the dict as it is then.
AppStartup ==
    \E ok \in BOOLEAN :
    /\ ~bLoop
    /\ bLoop' = TRUE
    /\ bStartup' = FALSE
    /\ bRow' = IF bStartup /\ ok THEN bMem ELSE bRow
    /\ bFailed' = (bFailed \/ (bStartup /\ ~ok))
    /\ UNCHANGED <<bMem, bTask, bWaiting, bSnap, bMuts, habitVars, listVars, storeVars, ioVars,
                   importVars, tickVars, nameVars, pageVars, algVars, pureVars, exportVars>>

\* The backup task starts: crud.update_user_habit_list(self.user, self) is
\* entered with the dict itself.
Backup_begin ==
    /\ bTask = "created"
    /\ bTask' = "writing"
    /\ bSnap' = bMem
    /\ UNCHANGED <<bMem, bRow, bLoop, bStartup, bWaiting, bFailed, bMuts, habitVars, listVars,
                   storeVars, ioVars, importVars, tickVars, nameVars, pageVars, algVars, pureVars, exportVars>>

\* The backup task ends: the row takes the dict as it was read, on entry or
\* at the commit; an exception is logged. Then the waiting coroutine starts.
Backup_end ==
    \E ok \in BOOLEAN, data \in {bSnap, bMem} :
    /\ bTask = "writing"
    /\ bRow' = IF ok THEN data ELSE bRow
    /\ bFailed' = (bFailed \/ ~ok)
    /\ bTask' = lazy_finalize(bWaiting).task
    /\ bWaiting' = lazy_finalize(bWaiting).waiting
    /\ UNCHANGED <<bMem, bLoop, bStartup, bSnap, bMuts, habitVars, listVars, storeVars, ioVars,
                   importVars, tickVars, nameVars, pageVars, algVars, pureVars, exportVars>>

NextBackup == DatabasePersistentDict_change \/ AppStartup \/ Backup_begin \/ Backup_end

----------------------------------------------------------------------------
(* Import page: handle_upload *)

MaxImports == 2      \* at most this many uploads in a run

\* An uploaded text that is not JSON.
BadJson == [habits |-> <<>>, order |-> <<"not json">>]

\* The payloads of an upload: lists of at most MaxStored habits (the empty
\* list {"habits": []} among them), and a text that does not parse.
Uploads == SaveLists \cup {BadJson}

NoImport == [load |-> None, sess |-> EmptyDict]

ImportIdle == upload = None /\ notice = "none" /\ before = NoImport /\ imports = 0

\* import_from_json with the check of an empty habit list left out.
import_from_json_unchecked(data) ==
    IF data = BadJson THEN [error |-> "JSONDecodeError", habit_list |-> None]
    ELSE [error |-> "none", habit_list |-> data]

\* import_from_json: json.loads raises on a text that is not JSON; a list
\* without habits raises ValueError("No habits found in the JSON data").
import_from_json(data) ==
    IF data = BadJson THEN [error |-> "JSONDecodeError", habit_list |-> None]
    ELSE IF data.habits = <<>> THEN [error |-> "ValueError", habit_list |-> None]
    ELSE [error |-> "none", habit_list |-> data]

\* handle_upload, "Merge habits" and "Add new habits", on dict.py's classes:
\* current_habit.merge(habit) is a coroutine function called without await,
\* so no record is merged, and current_habits.habits is a list built anew by
\* each read of the property, so extending it adds nothing to the data. What
\* the reads of habit.id do stays: a dict without "id" gets one.
handle_upload_merge(current_habits, imported_habits) ==
    [current_habits EXCEPT !.habits = WithIds(@)]

\* handle_upload, the whole handler, on the configured user storage.
HandleUpload ==
    \E data \in Uploads, get_ok \in BOOLEAN, ok \in BOOLEAN, merge_ok \in BOOLEAN :
    /\ backend \in {"USER_DATABASE", "USER_DISK"} /\ imports < MaxImports
    /\ imports' = imports + 1
    /\ upload' = data
    /\ before' = [load |-> Load, sess |-> sess]
    /\ LET imported == import_from_json(data)
           got      == IF backend = "USER_DATABASE"
                       THEN UserDatabaseStorage_get_user_habit_list(db, get_ok)
                       ELSE UserDiskStorage_get_user_habit_list(disk, get_ok)
           current  == handle_upload_merge(IF got = None THEN EmptyList ELSE got,
                                           imported.habit_list)
       IN  IF imported.error # "none"
           THEN /\ notice' = imported.error
                /\ UNCHANGED <<db, disk, sess, failed>>
           ELSE /\ notice' = "Imported"
                /\ db' = IF backend = "USER_DATABASE"
                         THEN UserDatabaseStorage_save_user_habit_list(db, current, ok)
                         ELSE db
                /\ IF backend = "USER_DISK"
                   THEN \E gens \in [Rebuilt(EnhancedHabitList_post_init(disk), current) -> ClockIds] :
                           disk' \in UserDiskStorage_save_user_habit_list(disk, current, gens, ok, merge_ok)
                   ELSE disk' = disk
                /\ sess' = DictStorage_save_user_habit_list(sess, current)
                /\ failed' = (failed \/ ~get_ok \/ ~ok \/ (backend = "USER_DISK" /\ ~merge_ok))
    /\ UNCHANGED <<backend, pc, cur, inc, mrg, ret, persisted0, saved, saves,
                   habitVars, listVars, ioVars, backupVars, tickVars, nameVars, pageVars, algVars, pureVars, exportVars>>

NextImport == HandleUpload

----------------------------------------------------------------------------
(* One habit object: tick, rename, star, id, merge *)

\* A tick that never looks for the day's record.
tick_always_appends(h, day, done) ==
    [h EXCEPT !.records = Append(@, [day |-> strftime(day), done |-> done])]

\* A tick that leaves an existing record of the day as it is.
tick_keeps_existing(h, day, done) ==
    IF \E i \in 1..Len(h.records) : RecordDay(h.records[i]) = day
    THEN h
    ELSE [h EXCEPT !.records = Append(@, [day |-> strftime(day), done |-> done])]

\* record = next((r for r in self.records if r.day == day), None);
\* record.done = done when there is one, else a record is appended.
tick_records(recs, day, done) ==
    IF \E i \in 1..Len(recs) : RecordDay(recs[i]) = day
    THEN LET first == Min({i \in 1..Len(recs) : RecordDay(recs[i]) = day})
         IN  [recs EXCEPT ![first].done = done]
    ELSE Append(recs, [day |-> strftime(day), done |-> done])

\* EnhancedHabit.tick (storage.py)
EnhancedHabit_tick(h, day, done) == [h EXCEPT !.records = tick_records(@, day, done)]

\* DictHabit.tick (dict.py)
DictHabit_tick(h, day, done) == [h EXCEPT !.records = tick_records(@, day, done)]

\* DictHabit.tick (views.py)
ViewsDictHabit_tick(h, day, done) == [h EXCEPT !.records = tick_records(@, day, done)]

\* The name setter: self.data["name"] = value
Habit_set_name(h, value) == [h EXCEPT !.name = value]

\* The star setter: self.data["star"] = value
Habit_set_star(h, value) == [h EXCEPT !.star = value]

\* Reading DictHabit.id (dict.py) stores a generated id in a dict without one.
DictHabit_read_id(h) == [h EXCEPT !.id = DictHabit_id(h)]

\* habit.id as each implementation reads it.
IdRead(i, h) == IF i = "Dict" THEN DictHabit_id(h) ELSE h.id

\* The done value read for a day: that of the first record of the day.
DoneOn(recs, day) == recs[Min({i \in 1..Len(recs) : RecordDay(recs[i]) = day})].done

UniqueByDay(recs) == \A i, j \in 1..Len(recs) : i # j => RecordDay(recs[i]) # RecordDay(recs[j])

NoOp == [op |-> "none", day |-> 0, done |-> FALSE]

TickIdle ==
    /\ tImpl = "none" /\ tH = NoHabit /\ tId0 = NoId /\ tOp = NoOp /\ tBefore = NoHabit
    /\ tTwice = FALSE

\* A habit as created or loaded: records unique by day; data read by dict.py
\* may carry no "id".
InitTick ==
    /\ tImpl \in {"Enhanced", "Dict", "Views"}
    /\ tH \in [id : {"r1"} \cup (IF tImpl = "Dict" THEN {NoId} ELSE {}),
               name : {"Run"}, star : {FALSE}, records : RecordInputs]
    /\ tId0 = IdRead(tImpl, tH)
    /\ tOp = NoOp
    /\ tBefore = tH
    /\ tTwice = FALSE

\* The habits handed to merge: the same id, records unique by day.
TickOthers == [id : {IdRead(tImpl, tH)}, name : {"Run"}, star : {FALSE}, records : RecordInputs]

\* await habit.tick(day, done)
EnhancedTick ==
    \E day \in Days, done \in BOOLEAN :
    /\ tImpl = "Enhanced"
    /\ tH' = EnhancedHabit_tick(tH, day, done)
    /\ tOp' = [op |-> "tick", day |-> day, done |-> done]
    /\ tTwice' = (tOp = tOp')
    /\ tBefore' = tH
    /\ UNCHANGED <<tImpl, tId0, habitVars, listVars, storeVars, ioVars, backupVars, importVars, nameVars, pageVars, algVars, pureVars, exportVars>>

DictTick ==
    \E day \in Days, done \in BOOLEAN :
    /\ tImpl = "Dict"
    /\ tH' = DictHabit_tick(tH, day, done)
    /\ tOp' = [op |-> "tick", day |-> day, done |-> done]
    /\ tTwice' = (tOp = tOp')
    /\ tBefore' = tH
    /\ UNCHANGED <<tImpl, tId0, habitVars, listVars, storeVars, ioVars, backupVars, importVars, nameVars, pageVars, algVars, pureVars, exportVars>>

ViewsTick ==
    \E day \in Days, done \in BOOLEAN :
    /\ tImpl = "Views"
    /\ tH' = ViewsDictHabit_tick(tH, day, done)
    /\ tOp' = [op |-> "tick", day |-> day, done |-> done]
    /\ tTwice' = (tOp = tOp')
    /\ tBefore' = tH
    /\ UNCHANGED <<tImpl, tId0, habitVars, listVars, storeVars, ioVars, backupVars, importVars, nameVars, pageVars, algVars, pureVars, exportVars>>

\* habit.name = value
Rename ==
    \E value \in Names :
    /\ tImpl # "none"
    /\ tH' = Habit_set_name(tH, value)
    /\ tOp' = [op |-> "rename", day |-> 0, done |-> FALSE]
    /\ tTwice' = FALSE
    /\ tBefore' = tH
    /\ UNCHANGED <<tImpl, tId0, habitVars, listVars, storeVars, ioVars, backupVars, importVars, nameVars, pageVars, algVars, pureVars, exportVars>>

\* habit.star = value
Star ==
    \E value \in BOOLEAN :
    /\ tImpl # "none"
    /\ tH' = Habit_set_star(tH, value)
    /\ tOp' = [op |-> "star", day |-> 0, done |-> FALSE]
    /\ tTwice' = FALSE
    /\ tBefore' = tH
    /\ UNCHANGED <<tImpl, tId0, habitVars, listVars, storeVars, ioVars, backupVars, importVars, nameVars, pageVars, algVars, pureVars, exportVars>>

\* habit.id read on dict.py's DictHabit
DictReadId ==
    /\ tImpl = "Dict"
    /\ tH' = DictHabit_read_id(tH)
    /\ tOp' = [op |-> "id", day |-> 0, done |-> FALSE]
    /\ tTwice' = FALSE
    /\ tBefore' = tH
    /\ UNCHANGED <<tImpl, tId0, habitVars, listVars, storeVars, ioVars, backupVars, importVars, nameVars, pageVars, algVars, pureVars, exportVars>>

\* habit = await habit.merge(other): the caller goes on with the habit returned
EnhancedTickMerge ==
    \E other \in TickOthers, gen \in ClockIds :
    /\ tImpl = "Enhanced"
    /\ tH' = EnhancedHabit_merge(tH, other, gen)
    /\ tOp' = [op |-> "merge", day |-> 0, done |-> FALSE]
    /\ tTwice' = FALSE
    /\ tBefore' = tH
    /\ UNCHANGED <<tImpl, tId0, habitVars, listVars, storeVars, ioVars, backupVars, importVars, nameVars, pageVars, algVars, pureVars, exportVars>>

DictTickMerge ==
    \E other \in TickOthers :
    /\ tImpl = "Dict"
    /\ tH' = DictHabit_merge(tH, other)
    /\ tOp' = [op |-> "merge", day |-> 0, done |-> FALSE]
    /\ tTwice' = FALSE
    /\ tBefore' = tH
    /\ UNCHANGED <<tImpl, tId0, habitVars, listVars, storeVars, ioVars, backupVars, importVars, nameVars, pageVars, algVars, pureVars, exportVars>>

\* habit.merge(other), in place (views.py)
ViewsTickMerge ==
    \E other \in TickOthers :
    /\ tImpl = "Views"
    /\ tH' = ViewsDictHabit_merge(tH, other)
    /\ tOp' = [op |-> "merge", day |-> 0, done |-> FALSE]
    /\ tTwice' = FALSE
    /\ tBefore' = tH
    /\ UNCHANGED <<tImpl, tId0, habitVars, listVars, storeVars, ioVars, backupVars, importVars, nameVars, pageVars, algVars, pureVars, exportVars>>

NextTick ==
    \/ EnhancedTick \/ DictTick \/ ViewsTick
    \/ Rename \/ Star \/ DictReadId
    \/ EnhancedTickMerge \/ DictTickMerge \/ ViewsTickMerge

----------------------------------------------------------------------------
(* Name inputs: HabitNameInput (rename), HabitAddButton (add), HabitAddCard *)

\* The texts typed into a name input: empty, blank, and names of 4, 18, 19,
\* 100 and 101 characters.
NameValues ==
    {"", " ", "   ", "Read",
     "aaaaaaaaaaaaaaaaaa",
     "aaaaaaaaaaaaaaaaaaa",
     "bbbbbbbbbbbbbbbbbbbbbbbbbbbbbbbbbbbbbbbbbbbbbbbbbbbbbbbbbbbbbbbbbbbbbbbbbbbbbbbbbbbbbbbbbbbbbbbbbbbb",
     "bbbbbbbbbbbbbbbbbbbbbbbbbbbbbbbbbbbbbbbbbbbbbbbbbbbbbbbbbbbbbbbbbbbbbbbbbbbbbbbbbbbbbbbbbbbbbbbbbbbbb"}

\* HabitNameInput._validate: the message shown under the input.
HabitNameInput_validate(value) ==
    IF value = "" THEN "Name is required"
    ELSE IF Len(value) > 18 THEN "Too long"
    ELSE "none"

\* validate_habit_name (add_page.py)
validate_habit_name(name) == 0 < Len(name) /\ Len(name) <= 100

NoName == [op |-> "none", name |-> "", list |-> NoComp]

NameIdle == nName = "" /\ nList = NoComp /\ nValue = "" /\ nError = "none" /\ nOp = NoName

InitName ==
    /\ nName = "Run"
    /\ nList = NoComp
    /\ nValue = nName
    /\ nError = "none"
    /\ nOp = NoName

\* The event just handled: which, and the habit's name and the list before it.
NameEvent(op) == [op |-> op, name |-> nName, list |-> nList]

\* HabitNameInput: the value typed is validated (the message is shown) and,
\* on blur, _async_task stores it as the habit's name.
HabitNameInput_blur ==
    \E value \in NameValues :
    /\ nValue' = value
    /\ nError' = HabitNameInput_validate(value)
    /\ nName' = value
    /\ nOp' = NameEvent("rename")
    /\ UNCHANGED <<nList, habitVars, listVars, storeVars, ioVars, backupVars, importVars, tickVars, pageVars, algVars, pureVars, exportVars>>

\* HabitAddButton._async_task on keydown.enter: habit_list.add(self.value)
HabitAddButton_enter ==
    \E value \in NameValues :
    /\ nValue' = value
    /\ nError' = "none"
    /\ nList' = ComponentsDictHabitList_add(nList, value)
    /\ nOp' = NameEvent("add")
    /\ UNCHANGED <<nName, habitVars, listVars, storeVars, ioVars, backupVars, importVars, tickVars, pageVars, algVars, pureVars, exportVars>>

\* HabitAddCard._validate_name on the input event: a notification, nothing else.
HabitAddCard_input ==
    \E value \in NameValues :
    /\ nValue' = value
    /\ nError' = IF validate_habit_name(value) THEN "none" ELSE "Invalid habit name"
    /\ nOp' = NameEvent("input")
    /\ UNCHANGED <<nName, nList, habitVars, listVars, storeVars, ioVars, backupVars, importVars, tickVars, pageVars, algVars, pureVars, exportVars>>

NextName == HabitNameInput_blur \/ HabitAddButton_enter \/ HabitAddCard_input

----------------------------------------------------------------------------
(* The display order of a list: the order setter, and merge of ordered lists *)

\* The lists handed to merge that carry an order: at most MaxOther habits
\* without records, unique by id; no order, or their ids in some sequence.
OrderedHabits == [id : {"r1", "h_run"}, name : {"Run"}, star : BOOLEAN, records : {<<>>}]

OrderedLists ==
    UNION {{[habits |-> hs, order |-> o] : o \in {<<>>} \cup Perms(IdsOf(hs))} :
              hs \in {x \in UNION {[1..n -> OrderedHabits] : n \in 0..MaxOther} : UniqueById(x)}}

\* The values item_drop gives to order: [str(x.id) for x in habits], habits
\* being some of the list's habits (those with a card) in the sequence the
\* cards have on screen.
Reorders(l) ==
    UNION {{[k \in 1..Cardinality(P) |-> l.habits[p[k]].id] : p \in Perms(P)} :
              P \in SUBSET (1..Len(l.habits))}

\* EnhancedHabitList.order setter: self.data["order"] = value
EnhancedHabitList_set_order(l, value) == [l EXCEPT !.order = value]

\* habit_list.order = value. On dict.py's DictHabitList the assignment makes
\* an attribute of the object, which DictHabitList.habits never reads.
SetOrder ==
    \E value \in Reorders(lst) :
    /\ impl \in {"Enhanced", "Dict"}
    /\ lst' = EnhancedHabitList_set_order(lst, value)
    /\ hist' = Called("order", "", NoHabit, EmptyList)
    /\ raised' = "none"
    /\ UNCHANGED <<impl, comp, habitVars, storeVars, ioVars, backupVars, importVars, tickVars, nameVars, pageVars, algVars, pureVars, exportVars>>

\* merged = await self.merge(other), other carrying an order
EnhancedMergeOrdered ==
    \E other \in OrderedLists :
    /\ impl = "Enhanced"
    /\ \E gens \in [Rebuilt(lst, other) -> ClockIds] :
         \E merged \in EnhancedHabitList_merge(lst, other, gens) :
            /\ Len(merged.habits) <= MaxHabits
            /\ lst' = merged
    /\ hist' = Called("merge", "", NoHabit, other)
    /\ raised' = "none"
    /\ UNCHANGED <<impl, comp, habitVars, storeVars, ioVars, backupVars, importVars, tickVars, nameVars, pageVars, algVars, pureVars, exportVars>>

\* await self.merge_user_habit_list(other): other's order is not read
DictMergeOrdered ==
    \E other \in OrderedLists :
    /\ impl = "Dict"
    /\ Len(DictHabitList_merge_user_habit_list(lst, other).habits) <= MaxHabits
    /\ lst' = DictHabitList_merge_user_habit_list(lst, other)
    /\ hist' = Called("merge", "", NoHabit, other)
    /\ raised' = "none"
    /\ UNCHANGED <<impl, comp, habitVars, storeVars, ioVars, backupVars, importVars, tickVars, nameVars, pageVars, algVars, pureVars, exportVars>>

NextOrder ==
    \/ EnhancedAdd \/ DictAdd
    \/ EnhancedRemove \/ DictRemove
    \/ SetOrder
    \/ EnhancedMergeOrdered \/ DictMergeOrdered


----------------------------------------------------------------------------
(* List merge as an operation on three lists A, B, C *)

\* The habits of A, B and C: no record, or a record of the first day, done or not.
AlgHabits == [id : {"r1", "h_run"}, name : {"Run"}, star : {FALSE},
              records : {<<>>} \cup {<<[day |-> strftime(1), done |-> d]>> : d \in BOOLEAN}]

AlgLists ==
    {[habits |-> hs, order |-> <<>>] :
        hs \in {x \in UNION {[1..n -> AlgHabits] : n \in 0..MaxOther} : UniqueById(x)}}

NoLists == [impl |-> "none", A |-> None, B |-> None, C |-> None]

NoMerges == [ab |-> None, ba |-> None, bc |-> None, left |-> None, right |-> None]

AlgIdle == gIn = NoLists /\ gOut = NoMerges

InitAlg ==
    /\ gIn \in [impl : {"Enhanced", "Dict"}, A : AlgLists, B : AlgLists, C : AlgLists]
    /\ gOut = NoMerges

\* The lists self.merge(other) can give. EnhancedHabitList.merge returns a new
\* list, whose rebuilt habits have clock-derived ids and whose habits come in
\* the iteration order of a set; dict.py's merge_user_habit_list changes self,
\* and the value is self after the call.
ListMerge(i, self, other) ==
    IF i = "Enhanced"
    THEN UNION {EnhancedHabitList_merge(self, other, gens) : gens \in [Rebuilt(self, other) -> ClockIds]}
    ELSE {DictHabitList_merge_user_habit_list(self, other)}

\* A.merge(B)
Merge_A_B ==
    /\ gIn.impl # "none" /\ gOut.ab = None
    /\ \E m \in ListMerge(gIn.impl, gIn.A, gIn.B) : gOut' = [gOut EXCEPT !.ab = m]
    /\ UNCHANGED <<gIn, habitVars, listVars, storeVars, ioVars, backupVars, importVars, tickVars, nameVars, pageVars, pureVars, exportVars>>

\* B.merge(A)
Merge_B_A ==
    /\ gIn.impl # "none" /\ gOut.ba = None
    /\ \E m \in ListMerge(gIn.impl, gIn.B, gIn.A) : gOut' = [gOut EXCEPT !.ba = m]
    /\ UNCHANGED <<gIn, habitVars, listVars, storeVars, ioVars, backupVars, importVars, tickVars, nameVars, pageVars, pureVars, exportVars>>

\* B.merge(C)
Merge_B_C ==
    /\ gIn.impl # "none" /\ gOut.bc = None
    /\ \E m \in ListMerge(gIn.impl, gIn.B, gIn.C) : gOut' = [gOut EXCEPT !.bc = m]
    /\ UNCHANGED <<gIn, habitVars, listVars, storeVars, ioVars, backupVars, importVars, tickVars, nameVars, pageVars, pureVars, exportVars>>

\* (A.merge(B)).merge(C)
Merge_AB_C ==
    /\ gOut.ab # None /\ gOut.left = None
    /\ \E m \in ListMerge(gIn.impl, gOut.ab, gIn.C) : gOut' = [gOut EXCEPT !.left = m]
    /\ UNCHANGED <<gIn, habitVars, listVars, storeVars, ioVars, backupVars, importVars, tickVars, nameVars, pageVars, pureVars, exportVars>>

\* A.merge(B.merge(C))
Merge_A_BC ==
    /\ gOut.bc # None /\ gOut.right = None
    /\ \E m \in ListMerge(gIn.impl, gIn.A, gOut.bc) : gOut' = [gOut EXCEPT !.right = m]
    /\ UNCHANGED <<gIn, habitVars, listVars, storeVars, ioVars, backupVars, importVars, tickVars, nameVars, pageVars, pureVars, exportVars>>

NextAlg == Merge_A_B \/ Merge_B_A \/ Merge_B_C \/ Merge_AB_C \/ Merge_A_BC

----------------------------------------------------------------------------
(* Merge on shared dicts: habit dicts and record dicts as Python objects *)

\* A record dict is a cell of uHeap, a habit dict an entry of uHab.objs whose
\* recs are the addresses of its record dicts; a list is a sequence of
\* addresses of habit dicts. Two lists holding one address share that dict.

RECURSIVE AllRecords(_)
\* The record dicts of the habits of a list, one after the other.
AllRecords(hs) == IF hs = <<>> THEN <<>> ELSE Head(hs).records \o AllRecords(Tail(hs))

\* The habit dicts of the list value hs, their record dicts placed from address base + 1 on.
Objs(hs, base) ==
    [i \in 1..Len(hs) |->
        [id |-> hs[i].id, name |-> hs[i].name, star |-> hs[i].star,
         recs |-> [k \in 1..Len(hs[i].records) |->
                      base + Len(AllRecords(SubSeq(hs, 1, i - 1))) + k]]]

\* The value of a habit dict, and of a list of them, as the heap stands.
HabitValue(heap, o) ==
    [id |-> o.id, name |-> o.name, star |-> o.star,
     records |-> [k \in 1..Len(o.recs) |-> heap[o.recs[k]]]]

ListValue(heap, objs, l) == [k \in 1..Len(l) |-> HabitValue(heap, objs[l[k]])]

\* DictHabit.merge (dict.py) on objects: new_records is a new list of self's
\* record dicts followed by other's record dicts of the days self has no
\* record of - the dicts themselves, not copies.
DictHabit_merge_shared(heap, self, other) ==
    LET existing_days == {RecordDay(heap[self.recs[k]]) : k \in 1..Len(self.recs)}
    IN  [id |-> self.id, name |-> self.name, star |-> self.star,
         recs |-> self.recs \o SelectSeq(other.recs, LAMBDA a : RecordDay(heap[a]) \notin existing_days)]

\* tick on a habit object: the first record dict of the day is written in
\* place; without one a new record dict is appended to the habit's own list.
\* The value is the heap and the habit dict after the call.
tick_shared(heap, o, day, done) ==
    IF \E k \in 1..Len(o.recs) : RecordDay(heap[o.recs[k]]) = day
    THEN LET first == Min({k \in 1..Len(o.recs) : RecordDay(heap[o.recs[k]]) = day})
         IN  [heap |-> [heap EXCEPT ![o.recs[first]].done = done], obj |-> o]
    ELSE [heap |-> Append(heap, [day |-> strftime(day), done |-> done]),
          obj  |-> [o EXCEPT !.recs = Append(@, Len(heap) + 1)]]

\* The positions of a list in the sequence DictHabitList.habits gives: starred first.
StarSorted(objs, l) == StableSort(l, [k \in 1..Len(l) |-> IF objs[l[k]].star THEN 0 ELSE 1])

RECURSIVE DictHabitList_merge_shared(_, _, _, _, _)
\* DictHabitList.merge_user_habit_list (dict.py) on objects: a habit of other
\* whose id self holds is merged into a new dict that replaces self's (the
\* first entry equal to it), any other habit dict of other is appended as it is.
\* The value is the habit dicts and self's list after the call.
DictHabitList_merge_shared(heap, objs, self, others, existing_habits) ==
    IF others = <<>> THEN [objs |-> objs, self |-> self]
    ELSE LET habit == objs[Head(others)]
         IN  IF habit.id \in existing_habits
             THEN LET view           == StarSorted(objs, self)
                      existing_habit == view[Min({k \in 1..Len(view) : objs[view[k]].id = habit.id})]
                      merged_habit   == DictHabit_merge_shared(heap, objs[existing_habit], habit)
                      at             == Min({k \in 1..Len(self) :
                                                HabitValue(heap, objs[self[k]])
                                                    = HabitValue(heap, objs[existing_habit])})
                  IN  DictHabitList_merge_shared(heap, Append(objs, merged_habit),
                                                 Append(RemoveAt(self, at), Len(objs) + 1),
                                                 Tail(others), existing_habits)
             ELSE DictHabitList_merge_shared(heap, objs, Append(self, Head(others)),
                                             Tail(others), existing_habits)

PureHabits == [id : {"r1", "h_run"}, name : {"Run"}, star : {FALSE},
               records : {<<>>} \cup {<<[day |-> strftime(1), done |-> d]>> : d \in BOOLEAN}]

PureLists == {x \in UNION {[1..n -> PureHabits] : n \in 0..MaxOther} : UniqueById(x)}

NoObjects == [objs |-> <<>>, self |-> <<>>, other |-> <<>>, merged |-> <<>>]

NoValues == [self |-> <<>>, other |-> <<>>]

NoTick == [op |-> "none", day |-> 0, done |-> FALSE]

PureIdle == uImpl = "none" /\ uHeap = <<>> /\ uHab = NoObjects /\ uBefore = NoValues /\ uOp = NoTick

\* Two lists as loaded: each habit dict and each record dict an object of its own.
InitPure ==
    /\ uImpl \in {"Enhanced", "Dict"}
    /\ \E sv \in PureLists, ov \in PureLists :
         /\ uHeap = AllRecords(sv) \o AllRecords(ov)
         /\ uHab = [objs   |-> Objs(sv, 0) \o Objs(ov, Len(AllRecords(sv))),
                    self   |-> [k \in 1..Len(sv) |-> k],
                    other  |-> [k \in 1..Len(ov) |-> Len(sv) + k],
                    merged |-> <<>>]
         /\ uBefore = [self |-> sv, other |-> ov]
    /\ uOp = NoTick

\* Both lists hold a habit and the two have one id: Habit.merge applies.
SameHabit ==
    /\ uHab.self # <<>> /\ uHab.other # <<>>
    /\ uHab.objs[uHab.self[1]].id = uHab.objs[uHab.other[1]].id

\* merged = await self_habit.merge(other_habit) on dict.py's DictHabit
DictHabitMergeShared ==
    /\ uImpl = "Dict" /\ uOp.op = "none" /\ SameHabit
    /\ uHab' = [uHab EXCEPT
                  !.objs = Append(@, DictHabit_merge_shared(uHeap, uHab.objs[uHab.self[1]],
                                                            uHab.objs[uHab.other[1]])),
                  !.merged = <<Len(uHab.objs) + 1>>]
    /\ uOp' = [op |-> "habit_merge", day |-> 0, done |-> FALSE]
    /\ UNCHANGED <<uImpl, uHeap, uBefore, habitVars, listVars, storeVars, ioVars, backupVars, importVars, tickVars, nameVars, pageVars, algVars, exportVars>>

\* merged = await self_habit.merge(other_habit) on EnhancedHabit: every
\* record dict of the result is a new dict.
EnhancedHabitMergeShared ==
    \E gen \in ClockIds :
    /\ uImpl = "Enhanced" /\ uOp.op = "none" /\ SameHabit
    /\ LET m == EnhancedHabit_merge(HabitValue(uHeap, uHab.objs[uHab.self[1]]),
                                    HabitValue(uHeap, uHab.objs[uHab.other[1]]), gen)
       IN  /\ uHeap' = uHeap \o m.records
           /\ uHab' = [uHab EXCEPT !.objs = Append(@, Objs(<<m>>, Len(uHeap))[1]),
                                   !.merged = <<Len(uHab.objs) + 1>>]
    /\ uOp' = [op |-> "habit_merge", day |-> 0, done |-> FALSE]
    /\ UNCHANGED <<uImpl, uBefore, habitVars, listVars, storeVars, ioVars, backupVars, importVars, tickVars, nameVars, pageVars, algVars, exportVars>>

\* await self.merge_user_habit_list(other) on dict.py's DictHabitList: self
\* is changed in place and is the result.
DictListMergeShared ==
    /\ uImpl = "Dict" /\ uOp.op = "none"
    /\ LET r == DictHabitList_merge_shared(uHeap, uHab.objs, uHab.self,
                                           StarSorted(uHab.objs, uHab.other),
                                           {uHab.objs[a].id : a \in Range(uHab.self)})
       IN  uHab' = [uHab EXCEPT !.objs = r.objs, !.self = r.self, !.merged = r.self]
    /\ uOp' = [op |-> "list_merge", day |-> 0, done |-> FALSE]
    /\ UNCHANGED <<uImpl, uHeap, uBefore, habitVars, listVars, storeVars, ioVars, backupVars, importVars, tickVars, nameVars, pageVars, algVars, exportVars>>

\* merged = await self.merge(other) on EnhancedHabitList, both lists unique by
\* id: the habits only one list holds go into the result as the dicts they
\* are, a habit both hold is built anew; the result lists them in some sequence.
EnhancedListMergeShared ==
    \E gen \in ClockIds :
    /\ uImpl = "Enhanced" /\ uOp.op = "none"
    /\ LET ids(l)  == {uHab.objs[a].id : a \in Range(l)}
           only    == {a \in Range(uHab.self) : uHab.objs[a].id \notin ids(uHab.other)}
                      \cup {a \in Range(uHab.other) : uHab.objs[a].id \notin ids(uHab.self)}
           both    == SelectSeq(uHab.self, LAMBDA a : uHab.objs[a].id \in ids(uHab.other))
           built   == [k \in 1..Len(both) |->
                          EnhancedHabit_merge(
                              HabitValue(uHeap, uHab.objs[both[k]]),
                              HabitValue(uHeap, uHab.objs[CHOOSE b \in Range(uHab.other) :
                                                              uHab.objs[b].id = uHab.objs[both[k]].id]),
                              gen)]
           news    == {Len(uHab.objs) + k : k \in 1..Len(both)}
       IN  /\ uHeap' = uHeap \o AllRecords(built)
           /\ \E p \in Perms(only \cup news) :
                uHab' = [uHab EXCEPT !.objs = @ \o Objs(built, Len(uHeap)), !.merged = p]
    /\ uOp' = [op |-> "list_merge", day |-> 0, done |-> FALSE]
    /\ UNCHANGED <<uImpl, uBefore, habitVars, listVars, storeVars, ioVars, backupVars, importVars, tickVars, nameVars, pageVars, algVars, exportVars>>

\* await habit.tick(day, done) on a habit of the merged result
TickMerged ==
    \E k \in 1..Len(uHab.merged), day \in Days, done \in BOOLEAN :
    /\ uOp.op \in {"habit_merge", "list_merge"}
    /\ LET t == tick_shared(uHeap, uHab.objs[uHab.merged[k]], day, done)
       IN  /\ uHeap' = t.heap
           /\ uHab' = [uHab EXCEPT !.objs[uHab.merged[k]] = t.obj]
    /\ uOp' = [op |-> "tick", day |-> day, done |-> done]
    /\ UNCHANGED <<uImpl, uBefore, habitVars, listVars, storeVars, ioVars, backupVars, importVars, tickVars, nameVars, pageVars, algVars, exportVars>>

NextPure ==
    \/ DictHabitMergeShared \/ EnhancedHabitMergeShared
    \/ DictListMergeShared \/ EnhancedListMergeShared
    \/ TickMerged

----------------------------------------------------------------------------
(* Export of a habit list to a JSON document, and import of such a document *)

\* The data dict of a list is a function from its keys to their values; a
\* JSON text is written as the value it encodes. Dicts with string keys,
\* lists, strings and booleans come back from json.loads as they went into
\* json.dumps.
json_dumps(data) == [json |-> data]

json_loads(text) == text.json

NoDoc == [json |-> [nothing |-> TRUE]]

MaxExports == 2     \* at most this many exports in a run

\* The identifiers of the owners who export.
ExportUsers == {"a@example.com", "b@example.com"}

\* datetime.datetime.now().strftime("%Y-%m-%d %H:%M:%S") at the t-th second of the clock
strftime_now(t) == "2024-01-01 00:00:0" \o ToString(t)

\* The persisted data of a list: "habits", with or without "order".
ExportData ==
    {[habits |-> l.habits] : l \in SaveLists}
    \cup {[habits |-> l.habits, order |-> o] : l \in SaveLists, o \in {<<>>, <<"r1">>}}

\* The dict export_user_habit_list dumps: {"user_email": ..., "exported_at": ..., **habit_list.data}.
\* A key of habit_list.data replaces the one written before it.
export_document(data, user_identify, now) ==
    [k \in {"user_email", "exported_at"} \cup DOMAIN data |->
        IF k \in DOMAIN data THEN data[k]
        ELSE IF k = "user_email" THEN user_identify ELSE now]

NoExport == [op |-> "none", user |-> "", at |-> "", n |-> 0]

ExportIdle == xRow = [habits |-> <<>>] /\ xDoc = NoDoc /\ xOp = NoExport

InitExport == xRow \in ExportData /\ xDoc = NoDoc /\ xOp = NoExport

\* await export_user_habit_list(habit_list, user_identify), the clock one
\* second on; a list that is no DictHabitList gets the failure notification.
ExportUserHabitList ==
    \E user_identify \in ExportUsers, is_dict \in BOOLEAN :
    /\ xOp.n < MaxExports
    /\ LET now == strftime_now(xOp.n + 1)
       IN  IF is_dict
           THEN /\ xDoc' = json_dumps(export_document(xRow, user_identify, now))
                /\ xOp' = [op |-> "export", user |-> user_identify, at |-> now, n |-> xOp.n + 1]
           ELSE /\ xDoc' = xDoc
                /\ xOp' = [op |-> "export_failed", user |-> user_identify, at |-> now, n |-> xOp.n + 1]
    /\ UNCHANGED <<xRow, habitVars, listVars, storeVars, ioVars, backupVars, importVars, tickVars, nameVars, pageVars, algVars, pureVars>>

\* habit_list = await import_from_json(text) on an exported document: the
\* list holds the whole document as its data; a document without habits raises.
ImportFromJson ==
    /\ xDoc # NoDoc
    /\ LET data == json_loads(xDoc)
       IN  IF data.habits = <<>>
           THEN /\ xRow' = xRow
                /\ xOp' = [xOp EXCEPT !.op = "import_rejected"]
           ELSE /\ xRow' = data
                /\ xOp' = [xOp EXCEPT !.op = "import"]
    /\ UNCHANGED <<xDoc, habitVars, listVars, storeVars, ioVars, backupVars, importVars, tickVars, nameVars, pageVars, algVars, pureVars>>

\* await async_import_json_data(json_data, user): DictHabitList(json_data) is
\* saved as it is and is the owner's persisted data from then on; a failure
\* of the save is logged and leaves the data as it was.
AsyncImportJsonData ==
    \E ok \in BOOLEAN :
    /\ xDoc # NoDoc
    /\ xRow' = IF ok THEN json_loads(xDoc) ELSE xRow
    /\ xOp' = [xOp EXCEPT !.op = IF ok THEN "import_saved" ELSE "import_failed"]
    /\ UNCHANGED <<xDoc, habitVars, listVars, storeVars, ioVars, backupVars, importVars, tickVars, nameVars, pageVars, algVars, pureVars>>

NextExport == ExportUserHabitList \/ ImportFromJson \/ AsyncImportJsonData

----------------------------------------------------------------------------
(* frontend/order_page.py: the cards of the order page and their handlers *)

MaxCards == 2        \* the list of the order page holds at most this many habits

\* Habit.status: ACTIVE unless the habit's dict says otherwise.
HabitStatus == {"ACTIVE", "ARCHIVED", "SOFT_DELETED"}

Habit_status(h) == IF "status" \in DOMAIN h THEN h.status ELSE "ACTIVE"

\* habit.status = value
Habit_set_status(h, value) ==
    [id |-> h.id, name |-> h.name, star |-> h.star, records |-> h.records, status |-> value]

\* A card shows one habit dict, named here by its position in data["habits"].
\* add_ui: a card for every ACTIVE habit, in the sequence of habit_list.habits.
add_ui(l) ==
    LET tagged == [i \in 1..Len(l.habits) |->
                      [pos |-> i, id |-> l.habits[i].id, star |-> l.habits[i].star]]
        view   == EnhancedHabitList_habits([habits |-> tagged, order |-> l.order])
    IN  SelectSeq([k \in 1..Len(view) |-> view[k].pos],
                  LAMBDA p : Habit_status(l.habits[p]) = "ACTIVE")

\* dragged.move(target_index=new_index): the card is taken out of its slot and
\* put back at the 0-based index, which list.insert cuts to the slot's length.
Element_move(cards, k, target_index) ==
    LET rest == RemoveAt(cards, k)
        t    == IF target_index > Len(rest) THEN Len(rest) ELSE target_index
    IN  SubSeq(rest, 1, t) \o <<cards[k]>> \o SubSeq(rest, t + 1, Len(rest))

\* item_drop after the move: order takes the ids of the cards' habits, every
\* habit but the last card's is set ACTIVE and the last card's ARCHIVED.
item_drop(l, moved) ==
    [habits |-> [p \in 1..Len(l.habits) |->
                    IF p \notin Range(moved) THEN l.habits[p]
                    ELSE IF IndexOf(moved, p) < Len(moved)
                         THEN (IF Habit_status(l.habits[p]) # "ACTIVE"
                               THEN Habit_set_status(l.habits[p], "ACTIVE") ELSE l.habits[p])
                         ELSE (IF Habit_status(l.habits[p]) # "ARCHIVED"
                               THEN Habit_set_status(l.habits[p], "ARCHIVED") ELSE l.habits[p])],
     order  |-> [i \in 1..Len(moved) |-> l.habits[moved[i]].id]]

\* A delete button that removes the habit whatever its status.
HabitDeleteButton_removes_at_once(l, p) == EnhancedHabitList_remove(l, l.habits[p])

\* HabitDeleteButton._async_task before the refresh: an ACTIVE habit is
\* archived, any other is removed from the list.
HabitDeleteButton_async_task(l, p) ==
    IF Habit_status(l.habits[p]) = "ACTIVE"
    THEN [l EXCEPT !.habits[p] = Habit_set_status(@, "ARCHIVED")]
    ELSE EnhancedHabitList_remove(l, l.habits[p])

\* The habits a list comes to the page with.
PageHabits ==
    {Habit_set_status(h, s) :
        h \in [id : {"r1"}, name : {"Run"}, star : {FALSE},
               records : {<<>>, <<[day |-> strftime(1), done |-> TRUE]>>}],
        s \in HabitStatus}

PageLists ==
    {[habits |-> hs, order |-> o] :
        hs \in UNION {[1..n -> PageHabits] : n \in 0..MaxStored}, o \in {<<>>, <<"r1">>}}

NoPageOp == [op |-> "none", before |-> EmptyList, pos |-> 0, status |-> "", moved |-> <<>>]

PageOp(op, pos, moved) ==
    [op |-> op, before |-> pList, pos |-> pos,
     status |-> IF pos = 0 THEN "" ELSE Habit_status(pList.habits[pos]), moved |-> moved]

PageIdle == pList = EmptyList /\ pCards = <<>> /\ pOp = NoPageOp

\* order_page_ui(habit_list): the page as first rendered.
InitPage == pList \in PageLists /\ pCards = add_ui(pList) /\ pOp = NoPageOp

\* The sortable column reports a card dropped at new_index: item_drop(e, habit_list)
ItemDrop ==
    \E k \in 1..Len(pCards), new_index \in 0..(Len(pCards) - 1) :
    LET moved == Element_move(pCards, k, new_index)
    IN  /\ pList' = item_drop(pList, moved)
        /\ pCards' = add_ui(pList')
        /\ pOp' = PageOp("drop", pCards[k], moved)
        /\ UNCHANGED <<habitVars, listVars, storeVars, ioVars, backupVars, importVars, tickVars, nameVars, algVars, pureVars, exportVars>>

\* A click on the delete button of a card: HabitDeleteButton._async_task
DeleteClick ==
    \E k \in 1..Len(pCards) :
    /\ pList' = HabitDeleteButton_async_task(pList, pCards[k])
    /\ pCards' = add_ui(pList')
    /\ pOp' = PageOp("delete", pCards[k], <<>>)
    /\ UNCHANGED <<habitVars, listVars, storeVars, ioVars, backupVars, importVars, tickVars, nameVars, algVars, pureVars, exportVars>>

\* Enter in the "New item" input: HabitAddButton._async_task
AddEnter ==
    \E value \in Names :
    /\ Len(pList.habits) < MaxCards
    /\ pList' = EnhancedHabitList_add(pList, value)
    /\ pCards' = add_ui(pList')
    /\ pOp' = PageOp("add", 0, <<>>)
    /\ UNCHANGED <<habitVars, listVars, storeVars, ioVars, backupVars, importVars, tickVars, nameVars, algVars, pureVars, exportVars>>

\* The star checkbox of a card changes: HabitStarCheckbox._async_task
StarChange ==
    \E k \in 1..Len(pCards), value \in BOOLEAN :
    /\ pList' = [pList EXCEPT !.habits[pCards[k]].star = value]
    /\ pCards' = add_ui(pList')
    /\ pOp' = PageOp("star", pCards[k], <<>>)
    /\ UNCHANGED <<habitVars, listVars, storeVars, ioVars, backupVars, importVars, tickVars, nameVars, algVars, pureVars, exportVars>>

NextPage == ItemDrop \/ DeleteClick \/ AddEnter \/ StarChange

----------------------------------------------------------------------------
(* Specifications *)

\* Everything a specification does not use stays at rest.
InitSpecHabit == InitHabit /\ ListIdle /\ StoreIdle /\ IoIdle /\ BackupIdle /\ ImportIdle /\ TickIdle /\ NameIdle /\ PageIdle /\ AlgIdle /\ PureIdle /\ ExportIdle
InitSpecList  == InitList /\ HabitIdle /\ StoreIdle /\ IoIdle /\ BackupIdle /\ ImportIdle /\ TickIdle /\ NameIdle /\ PageIdle /\ AlgIdle /\ PureIdle /\ ExportIdle
InitSpecMerge ==
    /\ InitStore /\ backend = "USER_DATABASE"
    /\ HabitIdle /\ ListIdle /\ IoIdle /\ BackupIdle /\ ImportIdle /\ TickIdle /\ NameIdle /\ PageIdle /\ AlgIdle /\ PureIdle /\ ExportIdle
InitSpecSave ==
    /\ InitStore /\ persisted0 \in {None} \cup SaveLists
    /\ HabitIdle /\ ListIdle /\ IoIdle /\ BackupIdle /\ ImportIdle /\ TickIdle /\ NameIdle /\ PageIdle /\ AlgIdle /\ PureIdle /\ ExportIdle
InitSpecBackup ==
    /\ InitBackup
    /\ HabitIdle /\ ListIdle /\ StoreIdle /\ IoIdle /\ ImportIdle /\ TickIdle /\ NameIdle /\ PageIdle /\ AlgIdle /\ PureIdle /\ ExportIdle
InitSpecImport ==
    /\ InitStore /\ backend \in {"USER_DATABASE", "USER_DISK"}
    /\ persisted0 \in {None} \cup SaveLists
    /\ ImportIdle
    /\ HabitIdle /\ ListIdle /\ IoIdle /\ BackupIdle /\ TickIdle /\ NameIdle /\ PageIdle /\ AlgIdle /\ PureIdle /\ ExportIdle
InitSpecTick ==
    /\ InitTick
    /\ HabitIdle /\ ListIdle /\ StoreIdle /\ IoIdle /\ BackupIdle /\ ImportIdle /\ NameIdle /\ PageIdle /\ AlgIdle /\ PureIdle /\ ExportIdle
InitSpecName ==
    /\ InitName
    /\ HabitIdle /\ ListIdle /\ StoreIdle /\ IoIdle /\ BackupIdle /\ ImportIdle /\ TickIdle /\ PageIdle /\ AlgIdle /\ PureIdle /\ ExportIdle

\* Habit.merge on every pair of same-id habits.
SpecHabit == InitSpecHabit /\ [][NextHabit]_vars

\* Any sequence of add, remove and merge on a list that starts empty.
SpecList == InitSpecList /\ [][NextList]_vars

\* One merge_user_habit_list call per caller, two callers, against one
\* owner's row of the database backend.
SpecMerge == InitSpecMerge /\ [][NextMerge]_vars

\* At most MaxSaves save_user_habit_list calls, and any number of loads,
\* against one owner's storage.
SpecSave == InitSpecSave /\ [][NextSave]_vars

\* At most MaxMuts changes of a database-backed dict and the backups they schedule.
SpecBackup == InitSpecBackup /\ [][NextBackup]_vars

\* At most MaxImports uploads on the import page.
SpecImport == InitSpecImport /\ [][NextImport]_vars

\* Any sequence of tick, rename, star, id read and merge on one habit.
SpecTick == InitSpecTick /\ [][NextTick]_vars

\* Any sequence of events on the name inputs.
SpecName == InitSpecName /\ [][NextName]_vars

InitSpecOrder ==
    /\ InitList /\ impl \in {"Enhanced", "Dict"}
    /\ HabitIdle /\ StoreIdle /\ IoIdle /\ BackupIdle /\ ImportIdle /\ TickIdle /\ NameIdle /\ PageIdle /\ AlgIdle /\ PureIdle /\ ExportIdle

\* Any sequence of add, remove, reorder and merge on a list that starts empty.
SpecOrder == InitSpecOrder /\ [][NextOrder]_vars

InitSpecAlg ==
    /\ InitAlg
    /\ HabitIdle /\ ListIdle /\ StoreIdle /\ IoIdle /\ BackupIdle /\ ImportIdle /\ TickIdle /\ NameIdle /\ PageIdle /\ PureIdle /\ ExportIdle

\* The merges of three lists, in both groupings and both argument orders.
SpecAlg == InitSpecAlg /\ [][NextAlg]_vars

InitSpecPure ==
    /\ InitPure
    /\ HabitIdle /\ ListIdle /\ StoreIdle /\ IoIdle /\ BackupIdle /\ ImportIdle /\ TickIdle /\ NameIdle /\ PageIdle /\ AlgIdle /\ ExportIdle

\* One merge of two habits or two lists, then ticks on the merged result.
SpecPure == InitSpecPure /\ [][NextPure]_vars

InitSpecExport ==
    /\ InitExport
    /\ HabitIdle /\ ListIdle /\ StoreIdle /\ IoIdle /\ BackupIdle /\ ImportIdle /\ TickIdle /\ NameIdle /\ PageIdle /\ AlgIdle /\ PureIdle

\* Exports of one list, each document free to be imported again.
SpecExport == InitSpecExport /\ [][NextExport]_vars

InitSpecCreate ==
    /\ InitStore
    /\ IoIdle
    /\ HabitIdle /\ ListIdle /\ BackupIdle /\ ImportIdle /\ TickIdle /\ NameIdle /\ PageIdle /\ AlgIdle /\ PureIdle /\ ExportIdle

\* get_or_create calls on the owner's storage, the medium free to fail.
SpecCreate == InitSpecCreate /\ [][NextCreate]_vars

InitSpecPage ==
    /\ InitPage
    /\ HabitIdle /\ ListIdle /\ StoreIdle /\ IoIdle /\ BackupIdle /\ ImportIdle /\ TickIdle /\ NameIdle /\ AlgIdle /\ PureIdle /\ ExportIdle

\* One client on the order page: drops, delete clicks, adds and star changes.
SpecPage == InitSpecPage /\ [][NextPage]_vars

----------------------------------------------------------------------------
(* Properties *)

\* The days ticked true under habit id in a list, and in the list as a whole.
TicksOf(l, id) == UNION {TickedSet(l.habits[i]) : i \in {j \in 1..Len(l.habits) : l.habits[j].id = id}}

AllTicked(l) == UNION {TickedSet(l.habits[i]) : i \in 1..Len(l.habits)}

\* Same habit-id set and the same ticked days per habit id.
SameList(a, b) ==
    /\ IdsOf(a.habits) = IdsOf(b.habits)
    /\ \A id \in IdsOf(a.habits) : TicksOf(a, id) = TicksOf(b, id)

\* Caller p's merge_user_habit_list has returned and no other call has started.
ReturnedAlone(p) == pc[p] = "done" /\ \A q \in Procs \ {p} : pc[q] = "idle"

\* C1: when get_user_habit_list returns None, merge_user_habit_list stores the
\* incoming list and returns it: a load right afterwards is not None and has
\* the incoming list's habits and ticks. (Stated for runs in which the medium
\* has not failed.)
MergeAbsentStoresIncoming ==
    \A p \in Procs :
        (ReturnedAlone(p) /\ cur[p] = None /\ ~failed)
            => (ret[p] = inc[p] /\ Load # None /\ SameList(Load, inc[p]))

\* C2: when get_user_habit_list returns a list, merge_user_habit_list returns
\* current.merge(incoming) and has saved it: with no other writer, the next
\* load has the id set and the ticked days per habit of the returned list.
MergePresentSavesMerged ==
    \A p \in Procs :
        (ReturnedAlone(p) /\ cur[p] # None)
            => (ret[p] = mrg[p] /\ Load # None /\ SameList(Load, ret[p]))

\* C3: once both merge_user_habit_list calls have completed, however they
\* interleaved, every day ticked true in either incoming list or in the list
\* persisted beforehand is ticked true in the persisted list. (Stated for
\* runs that start with a persisted list and in which the medium never fails.)
ConcurrentMergesKeepTicks ==
    ((\A p \in Procs : pc[p] = "done") /\ persisted0 # None /\ ~failed)
        => (AllTicked(persisted0) \cup UNION {AllTicked(inc[p]) : p \in Procs})
               \subseteq AllTicked(Load)

\* C4: the ticked days of A.merge(B) are exactly those of A and those of B.
TickUnionUnderMerge ==
    hpc = "merged" => TickedSet(hR) = TickedSet(hA) \cup TickedSet(hB)

\* C5: a day ticked true in either habit handed to merge is ticked true in
\* the merged habit, whatever record the other side holds for that day.
MergeNeverDeletesTicks ==
    hpc = "merged" => \A d \in Days : (d \in TickedSet(hA) \/ d \in TickedSet(hB)) => d \in TickedSet(hR)

\* C6: the habit ids of L1.merge(L2) are the ids of L1 together with the ids
\* of L2, no more and no fewer.
MergeIsAdditiveOnIds ==
    hist.op = "merge"
        => IdsOf(lst.habits) = IdsOf(hist.before.habits) \cup IdsOf(hist.other.habits)

\* C7: after any sequence of add, remove and merge on a list that started
\* empty, no two entries of the habit collection have the same id.
HabitIdsUnique == impl \in {"Enhanced", "Dict", "Views"} => UniqueById(lst.habits)

\* C8: add(name) directly followed by add(name) grows the list by two
\* entries, and the two new habits have distinct ids.
AddSameNameTwice ==
    [][(hist.op = "add" /\ hist'.op = "add" /\ hist'.name = hist.name)
          => /\ SizeOf(impl', lst', comp') = hist.size + 2
             /\ impl # "Components"
                   => lst'.habits[Len(lst'.habits)].id # lst'.habits[Len(lst'.habits) - 1].id]_vars

\* The last call was remove(item) and item was not in the list.
RemovedAbsent ==
    /\ hist.op = "remove"
    /\ IF impl = "Components" THEN hist.name \notin DOMAIN hist.cbefore
       ELSE ~HasId(hist.before.habits, hist.item.id)

\* C9: remove of a habit that is not in the list does not raise and leaves
\* the list as it was (so a second remove of the same habit changes nothing).
RemoveAbsentIsNoOp ==
    RemovedAbsent
        => /\ raised = "none"
           /\ comp = hist.cbefore
           /\ HabitsView(impl, lst) = HabitsView(impl, hist.before)
           /\ lst.order = hist.before.order

\* C10: after save_user_habit_list(owner, L) has returned, a load yields L:
\* not None, the same habit ids and the same ticked days per habit, and no
\* habit that L does not hold. (Stated for runs in which the medium never fails.)
SaveThenLoadYieldsSaved ==
    (saved # None /\ ~failed) => (Load # None /\ SameList(Load, saved))

\* C11: when save_user_habit_list fails (the medium, or the merge inside the
\* disk backend's save), a load afterwards returns exactly what a load
\* returned before the call.
FailedSaveKeepsPersisted ==
    (outcome.op = "save" /\ ~lastok) => Load = prior

\* A save of a list other than the persisted one has failed and the persisted
\* list is still there.
FailedSaveKeepsPersistedWitness ==
    /\ outcome.op = "save" /\ ~lastok
    /\ prior # None /\ saved # prior
    /\ Load = prior

\* C12: a load or save that failed against the medium ends in an error at the
\* caller: it does not return as a successful call does, and a failed load
\* does not return what a load of an owner without data returns.
StorageFailuresReported ==
    (outcome.op # "none" /\ ~lastok) => outcome.raised

EmptyImportRejected ==
    (upload # None /\ upload # BadJson /\ upload.habits = <<>>)
        => (notice = "ValueError" /\ Load = before.load /\ sess = before.sess)

\* {"habits": []} was uploaded by an owner without persisted data, who still has none.
EmptyImportRejectedWitness ==
    /\ imports > 0 /\ upload = EmptyList
    /\ notice = "ValueError"
    /\ before.load = None /\ Load = None /\ sess = EmptyDict

\* C15: after a successful import the persisted list holds every habit id of
\* the list the user had and every id of the uploaded list, and an id of both
\* has the ticked days of both sides. (Stated for runs in which the medium
\* never fails.)
ImportSavesMerged ==
    (notice = "Imported" /\ imports = 1 /\ ~failed)
        => LET current == IF before.load = None THEN EmptyList ELSE before.load
           IN  /\ Load # None
               /\ IdsOf(Load.habits) = IdsOf(current.habits) \cup IdsOf(upload.habits)
               /\ \A id \in IdsOf(current.habits) \cap IdsOf(upload.habits) :
                      TicksOf(Load, id) = TicksOf(current, id) \cup TicksOf(upload, id)

\* C16: tick(D, v) applied twice in a row leaves the records and the ticked
\* days as the first application left them.
TickIdempotent ==
    tTwice => (tH.records = tBefore.records /\ ticked_days(tH) = ticked_days(tBefore))

\* tick(D, True) was applied twice where the habit had no record of D ticked before.
TickIdempotentWitness ==
    /\ tTwice /\ tOp.done
    /\ tOp.day \in TickedSet(tH)
    /\ Len(tH.records) = MaxDay

HabitIdImmutable == IdRead(tImpl, tH) = tId0

\* A name the specification refuses: empty, blank after trimming, or longer
\* than 100 characters.
IsBlank(value) == value \in {"", " ", "   "}

InvalidName(value) == IsBlank(value) \/ Len(value) > 100

\* C19: a rename or an add with an invalid name is refused and changes neither
\* the habit's name nor the list; with a name of 1 to 100 characters it is
\* accepted without an error.
InvalidNamesRejected ==
    nOp.op \in {"rename", "add"}
        => IF InvalidName(nValue)
           THEN nError # "none" /\ nName = nOp.name /\ nList = nOp.list
           ELSE /\ nError = "none"
                /\ nOp.op = "rename" => nName = nValue
                /\ nOp.op = "add" => nValue \in DOMAIN nList

\* C20: add(name) appends exactly one habit, with empty records and star
\* false (status active where the habit has one), appends its id to order so
\* that it is displayed last, and leaves the habits already there as they were.
AddAppendsOne ==
    hist.op = "add"
        => IF impl = "Components"
           THEN /\ Cardinality(DOMAIN comp) = hist.size + 1
                /\ hist.name \in DOMAIN comp
                /\ comp[hist.name] = [name |-> hist.name, star |-> FALSE,
                                      ticked_days |-> {}, status |-> "active"]
                /\ \A n \in DOMAIN hist.cbefore : comp[n] = hist.cbefore[n]
           ELSE LET view == HabitsView(impl, lst)
                IN  /\ Len(lst.habits) = hist.size + 1
                    /\ SubSeq(lst.habits, 1, hist.size) = hist.before.habits
                    /\ view[Len(view)].name = hist.name
                    /\ view[Len(view)].records = <<>>
                    /\ view[Len(view)].star = FALSE
                    /\ lst.order = Append(hist.before.order, view[Len(view)].id)

\* C21: in the sorted view a habit whose id is not in order comes after every
\* habit whose id is in order, the habits in order come in the sequence order
\* gives them, and among the habits without an order position the starred
\* ones come before the unstarred ones.
OrderStability ==
    LET view == HabitsView(impl, lst)
        placed(i) == view[i].id \in Range(lst.order)
    IN  \A i, j \in 1..Len(view) :
            i < j =>
                /\ ~(~placed(i) /\ placed(j))
                /\ (placed(i) /\ placed(j))
                       => IndexOf(lst.order, view[i].id) <= IndexOf(lst.order, view[j].id)
                /\ (~placed(i) /\ ~placed(j)) => ~(~view[i].star /\ view[j].star)

\* C22: after remove(habit) neither the collection nor order holds the
\* habit's id, and at any time every id in order belongs to at most one habit
\* of the collection.
RemoveClearsOrder ==
    /\ hist.op = "remove"
           => /\ ~HasId(lst.habits, hist.item.id)
              /\ hist.item.id \notin Range(lst.order)
    /\ \A k \in 1..Len(lst.order) :
           Cardinality({i \in 1..Len(lst.habits) : lst.habits[i].id = lst.order[k]}) <= 1

\* The ids of a sequence that are not in the set placed, in their sequence.
NotPlaced(o, placed) == SelectSeq(o, LAMBDA id : id \notin placed)

\* C23: the order of self.merge(other) is self's order followed by the ids of
\* other's order that self's order does not hold, in other's sequence.
MergedOrderIsUnion ==
    (impl = "Enhanced" /\ hist.op = "merge")
        => lst.order = hist.before.order \o NotPlaced(hist.other.order, Range(hist.before.order))

\* C24: for habits A and B of one id, A.merge(B) has A's id, A's name and A's
\* star, whatever B's name and star are. (No habit class keeps a status.)
MergeKeepsReceiverAttributes ==
    hpc = "merged" => (hR.id = hA.id /\ hR.name = hA.name /\ hR.star = hA.star)

\* C25: (A.merge(B)).merge(C) and A.merge(B.merge(C)) have the same habit-id
\* set and the same ticked days per habit id, and so have A.merge(B) and
\* B.merge(A).
MergeAssociativeCommutative ==
    /\ (gOut.left # None /\ gOut.right # None) => SameList(gOut.left, gOut.right)
    /\ (gOut.ab # None /\ gOut.ba # None) => SameList(gOut.ab, gOut.ba)

\* C26: after self.merge(other), and after a later tick on the merged result,
\* the habits of self and of other - their ids, names, stars and records -
\* are what they were before the merge.
MergeLeavesInputsUnchanged ==
    uOp.op # "none"
        => /\ ListValue(uHeap, uHab.objs, uHab.self) = uBefore.self
           /\ ListValue(uHeap, uHab.objs, uHab.other) = uBefore.other

\* C27: the document of an export holds the exporting owner as user_email,
\* the time of this export as exported_at, and under every other key what
\* the list's data holds - also when that data came from an earlier export.
ExportAddsMetadata ==
    xOp.op = "export"
        => LET doc  == json_loads(xDoc)
               meta == {"user_email", "exported_at"}
           IN  /\ doc.user_email = xOp.user
               /\ doc.exported_at = xOp.at
               /\ DOMAIN doc \ meta = DOMAIN xRow \ meta
               /\ \A k \in DOMAIN doc \ meta : doc[k] = xRow[k]

\* C28: a list persisted for the owner is still the persisted list after any
\* get_or_create calls, failed reads included, and the default list is
\* created only when nothing was persisted before the call.
GetOrCreateKeepsData ==
    /\ persisted0 # None => Load = persisted0
    /\ outcome.op = "create" => prior = None

DropSetsOrderAndStatus ==
    pOp.op = "drop"
        => LET n   == Len(pOp.moved)
               ids == [i \in 1..n |-> pOp.before.habits[pOp.moved[i]].id]
           IN  /\ pList.order = ids
               /\ \A i, j \in 1..n : i # j => pList.order[i] # pList.order[j]
               /\ \A i \in 1..(n - 1) : Habit_status(pList.habits[pOp.moved[i]]) = "ACTIVE"
               /\ Habit_status(pList.habits[pOp.moved[n]]) = "ARCHIVED"

====
